---- MODULE Spec2Model ----
(***************************************************************************)
(* Model of the cesar transcription service: the persisted Job state       *)
(* machine (api/models.py, api/repository.py), the server lifespan with    *)
(* its startup recovery (api/server.py), the BackgroundWorker scheduling   *)
(* loop (api/worker.py) and the orchestrator's fallback policy             *)
(* (orchestrator.py).                                                      *)
(*                                                                         *)
(* Granularity.  The worker is one asyncio task.  Code between two awaits  *)
(* runs atomically with respect to the other tasks of the event loop, so   *)
(* one worker action is: the awaited operation takes effect (a repository  *)
(* call, or a to_thread call returns) and the coroutine runs on to the     *)
(* point where the next awaited operation is issued.  HTTP handlers are    *)
(* other tasks of the same loop; a crash ends the whole process.           *)
(***************************************************************************)
EXTENDS Integers, Sequences, FiniteSets, TLC

\* ---------------------------------------------------------------- bounds
MaxJobs == 2
MaxClock == 3
MaxCrashes == 1
MaxFaults == 2
MaxSpeakers == 2
MaxTime == 3
MaxWords == 3
MaxTurns == 3

\* ------------------------------------------------------ Optional[T] values
\* Python's Optional[T]: None is the empty set, a value v is {v}.
None == {}
Some(v) == {v}
Get(x) == CHOOSE v \in x : TRUE

\* ------------------------------------------------------------- JobStatus
QUEUED == "queued"
DOWNLOADING == "downloading"
PROCESSING == "processing"
COMPLETED == "completed"
ERROR == "error"
PARTIAL == "partial"
JobStatus == {QUEUED, DOWNLOADING, PROCESSING, COMPLETED, ERROR, PARTIAL}
Terminal == {COMPLETED, ERROR, PARTIAL}

\* ------------------------------------------------------------------ time
\* A datetime is a number of half seconds.  datetime.utcnow() returns the
\* clock and time moves on (the clock saturates at MaxClock, where reads tie).
Tick(c) == IF c < MaxClock THEN c + 1 ELSE c

\* datetime.isoformat(): the zero-padded fixed-width part down to the second
\* (one symbol here, ordered as the number) followed by the fraction, which
\* isoformat omits when the microsecond is 0.
IsoFormat(t) == IF t % 2 = 0 THEN <<t \div 2>> ELSE <<t \div 2, 5>>
FromIsoFormat(s) == 2 * s[1] + (IF Len(s) = 2 THEN 1 ELSE 0)

\* SQLite's comparison of two TEXT values (BINARY collation): lexicographic,
\* a proper prefix sorts first.
TextLess(a, b) ==
    \/ a[1] < b[1]
    \/ a[1] = b[1] /\ Len(a) < Len(b)
    \/ a[1] = b[1] /\ Len(a) = 2 /\ Len(b) = 2 /\ a[2] < b[2]

\* ------------------------------------------------------------------- Job
YOUTUBE_URL == "https://youtube/v"
UPLOAD_PATH == "/tmp/upload.mp3"
DOWNLOADED_PATH == "/tmp/cesar-youtube/a.m4a"

\* Job(...) with the model's defaults; created_at = utcnow().
NewJob(id, audio_path, status, download_progress, diarize, now) ==
    [id |-> id, status |-> status, audio_path |-> audio_path,
     created_at |-> now, started_at |-> None, completed_at |-> None,
     result_text |-> None, error_message |-> None,
     download_progress |-> download_progress, diarize |-> diarize,
     speaker_count |-> None, diarized |-> None,
     diarization_error |-> None, diarization_error_code |-> None]

\* ------------------------------------------------------------ repository
OptIso(t) == IF t = None THEN None ELSE Some(IsoFormat(Get(t)))
OptFromIso(s) == IF s = None THEN None ELSE Some(FromIsoFormat(Get(s)))

\* The column values repository.create binds for a job.
RowOfJob(job) ==
    [id |-> job.id, status |-> job.status, audio_path |-> job.audio_path,
     created_at |-> IsoFormat(job.created_at),
     started_at |-> OptIso(job.started_at),
     completed_at |-> OptIso(job.completed_at),
     result_text |-> job.result_text, error_message |-> job.error_message,
     download_progress |-> job.download_progress,
     diarize |-> IF job.diarize THEN 1 ELSE 0,
     speaker_count |-> job.speaker_count,
     diarized |-> IF job.diarized = Some(TRUE) THEN Some(1)
                  ELSE IF job.diarized = Some(FALSE) THEN Some(0) ELSE None,
     diarization_error |-> job.diarization_error,
     diarization_error_code |-> job.diarization_error_code]

RowToJob(row) ==
    [id |-> row.id, status |-> row.status, audio_path |-> row.audio_path,
     created_at |-> FromIsoFormat(row.created_at),
     started_at |-> OptFromIso(row.started_at),
     completed_at |-> OptFromIso(row.completed_at),
     result_text |-> row.result_text, error_message |-> row.error_message,
     download_progress |-> row.download_progress,
     diarize |-> (row.diarize # 0),
     speaker_count |-> row.speaker_count,
     diarized |-> IF row.diarized = None THEN None
                  ELSE Some(Get(row.diarized) # 0),
     diarization_error |-> row.diarization_error,
     diarization_error_code |-> row.diarization_error_code]

\* The table is a sequence of rows; a job's id is its position.
RepoCreate(d, job) == Append(d, RowOfJob(job))

RepoGet(d, id) == IF id \in DOMAIN d THEN Some(RowToJob(d[id])) ELSE None

\* UPDATE jobs SET <every column but id, model_size, created_at> WHERE id = ?
RepoUpdate(d, job) ==
    [i \in DOMAIN d |->
        IF d[i].id = job.id
        THEN [RowOfJob(job) EXCEPT !.created_at = d[i].created_at]
        ELSE d[i]]

RepoListAll(d) == {RowToJob(d[i]) : i \in DOMAIN d}

\* A faulty get_next_queued: ORDER BY created_at DESC.
GetNextQueuedNewest(d) ==
    LET elig == {i \in DOMAIN d : d[i].status \in {QUEUED, DOWNLOADING}}
    IN {i \in elig : \A k \in elig : ~TextLess(d[i].created_at, d[k].created_at)}

\* A faulty get_next_queued: no WHERE clause on the status.
GetNextQueuedAnyStatus(d) ==
    LET elig == DOMAIN d
    IN {i \in elig : \A k \in elig : ~TextLess(d[k].created_at, d[i].created_at)}

\* SELECT ... WHERE status IN ('queued','downloading')
\* ORDER BY created_at ASC LIMIT 1: the ids the query can return (any one of
\* the rows with the least created_at text; none when no row is eligible).
GetNextQueued(d) ==
    LET elig == {i \in DOMAIN d : d[i].status \in {QUEUED, DOWNLOADING}}
    IN {i \in elig : \A k \in elig : ~TextLess(d[k].created_at, d[i].created_at)}

\* ------------------------------------------------------------ exceptions
\* An exception is its class and str(e).  isinstance follows the class
\* hierarchy of diarization.py and youtube_handler.py.
Exc(type, msg) == [type |-> type, msg |-> msg]
IsDiarizationError(e) == e.type \in {"DiarizationError", "AuthenticationError"}
IsAuthenticationError(e) == e.type = "AuthenticationError"
IsDownloadError(e) == e.type \in {"YouTubeDownloadError", "FFmpegNotFoundError"}

\* What the collaborators of one orchestration call do: whether an HF token
\* resolves, what AudioTranscriber produces (it raises, or yields a transcript
\* that may be empty), what the unified pipeline does, how many speakers it
\* finds, and whether the formatter raises.
TranscribeOutcomes == {"raise", "empty", "text"}
PipelineOutcomes == {"ok", "auth", "diar", "other"}
Envs ==
    [hf_token : BOOLEAN, transcribe : TranscribeOutcomes,
     pipeline : PipelineOutcomes, speakers : 1..MaxSpeakers,
     format : {"ok", "raise"}]

PlainOf(t) == IF t = "empty" THEN "" ELSE "hello"
SavedPlainOf(t) == IF t = "empty" THEN "# Transcript" ELSE "# Transcript hello"
MarkdownOf(t) == IF t = "empty" THEN "# Speakers" ELSE "# Speakers hello"
TranscribeError == Exc("RuntimeError", "Transcription failed")

\* --------------------------------------------------------- orchestrator
\* TranscriptionOrchestrator.__init__(pipeline, transcriber, formatter) called
\* with the keyword arguments kw: Python raises TypeError for a keyword that
\* is no parameter; a parameter not passed stays None.
OrchestratorParams == {"pipeline", "transcriber", "formatter"}

OrchestratorInit(kw) ==
    IF kw \subseteq OrchestratorParams
    THEN [raised |-> FALSE, exc |-> Exc("", ""),
          pipeline |-> "pipeline" \in kw, transcriber |-> "transcriber" \in kw]
    ELSE [raised |-> TRUE,
          exc |-> Exc("TypeError", "unexpected keyword argument"),
          pipeline |-> FALSE, transcriber |-> FALSE]

OrchRaise(e) ==
    [raised |-> TRUE, exc |-> e, diarization_succeeded |-> FALSE,
     speakers_detected |-> 0, diarization_time |-> None, ext |-> "", text |-> ""]

OrchReturn(ok, n, dtime, ext, text) ==
    [raised |-> FALSE, exc |-> Exc("", ""), diarization_succeeded |-> ok,
     speakers_detected |-> n, diarization_time |-> dtime, ext |-> ext,
     text |-> text]

\* The format-and-save stage of orchestrate for segments already obtained.
FormatAndSave(succeeded, n, dtime, env) ==
    IF succeeded /\ env.format = "ok"
    THEN OrchReturn(TRUE, n, dtime, ".md", MarkdownOf(env.transcribe))
    ELSE OrchReturn(FALSE, n, dtime, ".txt", SavedPlainOf(env.transcribe))

\* _transcribe_fallback followed by the format-and-save stage.
PlainPath(env) ==
    IF env.transcribe = "raise" THEN OrchRaise(TranscribeError)
    ELSE FormatAndSave(FALSE, 0, None, env)

\* orchestrate(audio_path, output_path, enable_diarization) of an
\* orchestrator o = [pipeline, transcriber] (which of the two it holds).
Orchestrate(o, enable_diarization, env) ==
    IF enable_diarization /\ o.pipeline
    THEN CASE env.pipeline = "ok" ->
                FormatAndSave(TRUE, env.speakers, Some(1), env)
           [] env.pipeline = "auth" ->
                OrchRaise(Exc("AuthenticationError", "HuggingFace authentication failed"))
           [] env.pipeline = "diar" ->
                IF o.transcriber THEN PlainPath(env)
                ELSE OrchRaise(Exc("DiarizationError",
                        "Diarization failed and no fallback transcriber available"))
           [] OTHER ->
                OrchRaise(Exc("DiarizationError", "Pipeline failed"))
    ELSE IF o.transcriber THEN PlainPath(env)
    ELSE OrchRaise(Exc("ValueError", "Transcription requires either pipeline or transcriber"))

\* ------------------------------------------- worker: the orchestration call
HF_TOKEN_REQUIRED_MSG ==
    "HuggingFace token required for speaker diarization. Set hf_token in config or HF_TOKEN environment variable."

ResultRaise(e) ==
    [raised |-> TRUE, exc |-> e, text |-> "", diarization_succeeded |-> FALSE,
     speaker_count |-> None, diarization_error_code |-> None,
     diarization_error |-> None]

\* The dict _run_transcription_with_orchestrator returns; a key that is not
\* in the dict is None here.
ResultDict(text, ok, count, code, err) ==
    [raised |-> FALSE, exc |-> Exc("", ""), text |-> text,
     diarization_succeeded |-> ok, speaker_count |-> count,
     diarization_error_code |-> code, diarization_error |-> err]

\* transcriber.transcribe_file then the dict built from the file's text.
TranscribeOnly(env, code, err) ==
    IF env.transcribe = "raise" THEN ResultRaise(TranscribeError)
    ELSE ResultDict(PlainOf(env.transcribe), FALSE, None, code, err)

\* The keywords the worker passes to TranscriptionOrchestrator(...).
WorkerOrchestratorKeywords == {"transcriber", "diarizer"}

\* A faulty orchestration call: the HF token is not looked at first.
RunTranscriptionNoTokenCheck(diarize, env) ==
    IF ~diarize THEN TranscribeOnly(env, None, None)
    ELSE LET o == OrchestratorInit(WorkerOrchestratorKeywords)
         IN IF o.raised THEN ResultRaise(o.exc)
            ELSE TranscribeOnly(env, Some("diarization_failed"), None)

RunTranscriptionWithOrchestrator(diarize, env) ==
    IF ~diarize THEN TranscribeOnly(env, None, None)
    ELSE IF ~env.hf_token
    THEN TranscribeOnly(env, Some("hf_token_required"), Some(HF_TOKEN_REQUIRED_MSG))
    ELSE LET o == OrchestratorInit(WorkerOrchestratorKeywords)
             r == Orchestrate(o, TRUE, env)
         IN IF o.raised THEN ResultRaise(o.exc)
            ELSE IF r.raised /\ IsAuthenticationError(r.exc)
            THEN TranscribeOnly(env, Some("hf_token_invalid"), Some(r.exc.msg))
            ELSE IF r.raised /\ IsDiarizationError(r.exc)
            THEN TranscribeOnly(env, Some("diarization_failed"), Some(r.exc.msg))
            ELSE IF r.raised THEN ResultRaise(r.exc)
            ELSE ResultDict(r.text, r.diarization_succeeded,
                    IF r.diarization_succeeded THEN Some(r.speakers_detected)
                    ELSE None,
                    None, None)

\* Python truthiness of result.get(key) for an optional string.
Truthy(x) == x # None /\ x # Some("")

\* ------------------------------------------------ worker: _process_job
\* Faulty handlers: one drops the message, one ends the job as PARTIAL.
FailJobNoMessage(job, e, now) ==
    [job EXCEPT !.status = ERROR, !.completed_at = Some(now)]

FailJobAsPartial(job, e, now) ==
    [job EXCEPT !.status = PARTIAL, !.completed_at = Some(now),
                !.error_message = Some(e.msg)]

\* The except-handler assignments: status ERROR, completed_at, error_message.
FailJob(job, e, now) ==
    [job EXCEPT !.status = ERROR, !.completed_at = Some(now),
                !.error_message = Some(e.msg)]

\* _process_job from its entry to its first repository.update: the retry
\* check and the assignments of the DOWNLOADING or of the regular branch.
\* A faulty pickup: the regular branch does not stamp started_at.
BeginJobNoStartedAt(j0, now) ==
    [is_retry |-> (j0.result_text # None /\ j0.diarization_error # None),
     job |-> IF j0.status = DOWNLOADING
             THEN [j0 EXCEPT !.download_progress = Some(0),
                             !.started_at = Some(now)]
             ELSE [j0 EXCEPT !.status = PROCESSING],
     pc |-> IF j0.status = DOWNLOADING THEN "upd_dl_start" ELSE "upd_processing"]

\* A faulty retry check: a transcript alone makes the job a retry.
BeginJobRetryOnTextAlone(j0, now) ==
    [is_retry |-> (j0.result_text # None),
     job |-> IF j0.status = DOWNLOADING
             THEN [j0 EXCEPT !.download_progress = Some(0),
                             !.started_at = Some(now)]
             ELSE [j0 EXCEPT !.status = PROCESSING, !.started_at = Some(now)],
     pc |-> IF j0.status = DOWNLOADING THEN "upd_dl_start" ELSE "upd_processing"]

BeginJob(j0, now) ==
    [is_retry |-> (j0.result_text # None /\ j0.diarization_error # None),
     job |-> IF j0.status = DOWNLOADING
             THEN [j0 EXCEPT !.download_progress = Some(0),
                             !.started_at = Some(now)]
             ELSE [j0 EXCEPT !.status = PROCESSING, !.started_at = Some(now)],
     pc |-> IF j0.status = DOWNLOADING THEN "upd_dl_start" ELSE "upd_processing"]

\* A faulty download branch: the URL stays the job's source.
DownloadSucceededKeepsUrl(job) ==
    [job EXCEPT !.download_progress = Some(100), !.status = PROCESSING]

\* After download_youtube_audio returned the path.
DownloadSucceeded(job) ==
    [job EXCEPT !.download_progress = Some(100), !.audio_path = DOWNLOADED_PATH,
                !.status = PROCESSING]

\* A faulty result mapping: a result without diarization is Partial even
\* when the job did not ask for diarization.
ApplyResultIgnoresDiarizeFlag(job, result, now) ==
    LET base == [job EXCEPT !.completed_at = Some(now),
                            !.result_text = Some(result.text)]
    IN IF result.diarization_succeeded
       THEN [base EXCEPT !.status = COMPLETED, !.diarized = Some(TRUE),
                !.speaker_count = result.speaker_count]
       ELSE [base EXCEPT !.status = PARTIAL,
                !.diarization_error = Some("Diarization failed during processing"),
                !.diarization_error_code = Some("diarization_failed"),
                !.diarized = Some(FALSE), !.speaker_count = None]

\* A faulty result mapping: the Partial branches do not reset diarized and
\* speaker_count.
ApplyResultPartialKeepsFlags(job, result, now) ==
    LET base == [job EXCEPT !.completed_at = Some(now),
                            !.result_text = Some(result.text)]
    IN IF Truthy(result.diarization_error_code)
       THEN [base EXCEPT !.status = PARTIAL,
                !.diarization_error_code = result.diarization_error_code,
                !.diarization_error =
                    IF result.diarization_error = None
                    THEN Some("Diarization failed")
                    ELSE result.diarization_error]
       ELSE IF ~result.diarization_succeeded /\ job.diarize
       THEN [base EXCEPT !.status = PARTIAL,
                !.diarization_error = Some("Diarization failed during processing"),
                !.diarization_error_code = Some("diarization_failed")]
       ELSE IF result.diarization_succeeded
       THEN [base EXCEPT !.status = COMPLETED, !.diarized = Some(TRUE),
                !.speaker_count = result.speaker_count]
       ELSE [base EXCEPT !.status = COMPLETED, !.diarized = Some(FALSE),
                !.speaker_count = None]

\* A faulty result mapping: without an error code the job is Completed,
\* whether or not the diarization it asked for succeeded.
ApplyResultCompletesWithoutLabels(job, result, now) ==
    LET base == [job EXCEPT !.completed_at = Some(now),
                            !.result_text = Some(result.text)]
    IN IF Truthy(result.diarization_error_code)
       THEN [base EXCEPT !.status = PARTIAL,
                !.diarization_error_code = result.diarization_error_code,
                !.diarization_error =
                    IF result.diarization_error = None
                    THEN Some("Diarization failed")
                    ELSE result.diarization_error,
                !.diarized = Some(FALSE), !.speaker_count = None]
       ELSE IF result.diarization_succeeded
       THEN [base EXCEPT !.status = COMPLETED, !.diarized = Some(TRUE),
                !.speaker_count = result.speaker_count]
       ELSE [base EXCEPT !.status = COMPLETED, !.diarized = Some(FALSE),
                !.speaker_count = None]

\* "Update job with results": the mapping of the result dict to the job.
ApplyResult(job, result, now) ==
    LET base == [job EXCEPT !.completed_at = Some(now),
                            !.result_text = Some(result.text)]
    IN IF Truthy(result.diarization_error_code)
       THEN [base EXCEPT !.status = PARTIAL,
                !.diarization_error_code = result.diarization_error_code,
                !.diarization_error =
                    IF result.diarization_error = None
                    THEN Some("Diarization failed")
                    ELSE result.diarization_error,
                !.diarized = Some(FALSE), !.speaker_count = None]
       ELSE IF ~result.diarization_succeeded /\ job.diarize
       THEN [base EXCEPT !.status = PARTIAL,
                !.diarization_error = Some("Diarization failed during processing"),
                !.diarization_error_code = Some("diarization_failed"),
                !.diarized = Some(FALSE), !.speaker_count = None]
       ELSE IF result.diarization_succeeded
       THEN [base EXCEPT !.status = COMPLETED, !.diarized = Some(TRUE),
                !.speaker_count = result.speaker_count]
       ELSE [base EXCEPT !.status = COMPLETED, !.diarized = Some(FALSE),
                !.speaker_count = None]

\* _process_job from the return of the orchestration call to its next
\* update: the job as the result mapping, or the except handler, leaves it.
AfterOrchestration(j, env, now) ==
    LET r == RunTranscriptionWithOrchestrator(j.diarize, env)
    IN IF r.raised THEN FailJob(j, r.exc, now) ELSE ApplyResult(j, r, now)

\* A faulty loop test: while True.
LoopTopIgnoresShutdown(shutdown) == "poll"

\* The test of run()'s while loop, made when the loop comes round.
LoopTop(shutdown) == IF shutdown THEN "stopped" ELSE "poll"

\* ------------------------------------------------------- server lifespan
\* A faulty re-queue: started_at is left as it was.
RequeueKeepsStartedAt(job) == [job EXCEPT !.status = QUEUED]

\* Startup recovery: every job found PROCESSING is re-queued.
Requeue(job) == [job EXCEPT !.status = QUEUED, !.started_at = None]

\* A faulty lifespan: no startup recovery.
RecoverNothing(d) == d

\* A faulty lifespan: jobs found in ERROR are re-queued as well.
RecoverErrorsToo(d) ==
    [i \in DOMAIN d |->
        IF RowToJob(d[i]).status \in {PROCESSING, ERROR}
        THEN RepoUpdate(d, Requeue(RowToJob(d[i])))[i]
        ELSE d[i]]

Recover(d) ==
    [i \in DOMAIN d |->
        IF RowToJob(d[i]).status = PROCESSING
        THEN RepoUpdate(d, Requeue(RowToJob(d[i])))[i]
        ELSE d[i]]

\* ---------------------------------------------------------- retry request
\* POST /jobs/{id}/retry, as the specification and the server tests state it:
\* 404 for an unknown id, 400 for a job that is not PARTIAL; a PARTIAL job
\* goes back to QUEUED with its diarization error fields cleared and its
\* transcript kept, in one atomic write keyed by the job's id, and the
\* answer is 202.
RetryTransition(job) ==
    [job EXCEPT !.status = QUEUED, !.diarization_error = None,
                !.diarization_error_code = None]

\* A faulty retry: a job that is being processed is re-queued as well.
RetryJobWhileProcessing(d, id) ==
    IF RepoGet(d, id) = None THEN [code |-> 404, db |-> d]
    ELSE IF Get(RepoGet(d, id)).status \notin {PARTIAL, PROCESSING}
    THEN [code |-> 400, db |-> d]
    ELSE [code |-> 202, db |-> RepoUpdate(d, RetryTransition(Get(RepoGet(d, id))))]

\* A faulty retry: any known job is re-queued, whatever its status.
RetryJobAnyStatus(d, id) ==
    IF RepoGet(d, id) = None THEN [code |-> 404, db |-> d]
    ELSE [code |-> 202, db |-> RepoUpdate(d, RetryTransition(Get(RepoGet(d, id))))]

RetryJob(d, id) ==
    IF RepoGet(d, id) = None THEN [code |-> 404, db |-> d]
    ELSE IF Get(RepoGet(d, id)).status # PARTIAL THEN [code |-> 400, db |-> d]
    ELSE [code |-> 202, db |-> RepoUpdate(d, RetryTransition(Get(RepoGet(d, id))))]

\* ================================================================ state
VARIABLES
    proc,             \* "down" or "up": the server process
    db,               \* the jobs table
    clock,            \* what utcnow() returns next
    crashes,          \* process ends so far
    faults,           \* repository calls that raised so far
    pc,               \* where the worker task stands
    job,              \* the Job object _process_job holds (None outside it)
    is_retry,         \* _process_job's local
    exc,              \* the exception an except handler of _process_job holds
    current_job_id,   \* BackgroundWorker._current_job_id
    shutdown_event,   \* BackgroundWorker._shutdown_event
    hist,             \* per job: "fresh", "proc" (it was persisted PROCESSING),
                      \* "requeued" (set back to QUEUED since it last was)
    shutdownInFlight, \* the job in flight when shutdown() was called
    downloadFailed,   \* jobs whose download failure was persisted
    orch,             \* one TranscriptionOrchestrator.orchestrate call, by steps
    al                \* one align_timestamps call, by steps

vars == <<proc, db, clock, crashes, faults, pc, job, is_retry, exc,
          current_job_id,
          shutdown_event, hist, shutdownInFlight,
          downloadFailed, orch, al>>

workerVars == <<pc, job, is_retry, exc, current_job_id>>
ghostVars == <<shutdownInFlight, downloadFailed>>

\* No orchestrate call is being followed.
OrchIdle == [pc |-> "idle"]

\* No align_timestamps call is being followed.
AlignIdle == [pc |-> "idle"]

\* The history of each job across one change of the table.
HistAfter(h, d, dn) ==
    [i \in DOMAIN dn |->
        IF i \notin DOMAIN d THEN "fresh"
        ELSE IF dn[i].status = PROCESSING THEN "proc"
        ELSE IF dn[i].status = QUEUED /\ d[i].status # QUEUED /\ h[i] = "proc"
        THEN "requeued"
        ELSE h[i]]

Init ==
    /\ proc = "down"
    /\ db = <<>>
    /\ clock = 0
    /\ crashes = 0
    /\ faults = 0
    /\ pc = "none"
    /\ job = None
    /\ is_retry = FALSE
    /\ exc = None
    /\ current_job_id = None
    /\ shutdown_event = FALSE
    /\ hist = <<>>
    /\ shutdownInFlight = None
    /\ downloadFailed = {}
    /\ orch = OrchIdle
    /\ al = AlignIdle

\* ------------------------------------------------------------- process
\* lifespan up to its yield: recovery, then the worker task is created.
Lifespan ==
    /\ UNCHANGED <<orch, al>>
    /\ proc = "down"
    /\ proc' = "up"
    /\ db' = Recover(db)
    /\ hist' = HistAfter(hist, db, db')
    /\ pc' = "start"
    /\ UNCHANGED <<clock, crashes, faults, job, is_retry, exc, current_job_id,
                   shutdown_event, ghostVars>>

\* The process ends (killed, or exits after the worker stopped): every task
\* and object of it is gone, the table stays.
Crash ==
    /\ UNCHANGED <<orch, al>>
    /\ proc = "up"
    /\ crashes < MaxCrashes
    /\ crashes' = crashes + 1
    /\ proc' = "down"
    /\ pc' = "none"
    /\ job' = None
    /\ is_retry' = FALSE
    /\ exc' = None
    /\ current_job_id' = None
    /\ shutdown_event' = FALSE
    /\ shutdownInFlight' = None
    /\ UNCHANGED <<db, clock, faults, hist, downloadFailed>>

\* POST /transcribe and POST /transcribe/url: a QUEUED job for a file, a
\* DOWNLOADING job for a YouTube URL.
CreateJob ==
    /\ UNCHANGED <<orch, al>>
    /\ proc = "up"
    /\ Len(db) < MaxJobs
    /\ \E youtube \in BOOLEAN, diarize \in BOOLEAN :
         db' = RepoCreate(db,
                 IF youtube
                 THEN NewJob(Len(db) + 1, YOUTUBE_URL, DOWNLOADING, Some(0),
                             diarize, clock)
                 ELSE NewJob(Len(db) + 1, UPLOAD_PATH, QUEUED, None,
                             diarize, clock))
    /\ clock' = Tick(clock)
    /\ hist' = HistAfter(hist, db, db')
    /\ UNCHANGED <<proc, crashes, faults, workerVars, shutdown_event, ghostVars>>

\* worker.shutdown()
Shutdown ==
    /\ UNCHANGED <<orch, al>>
    /\ proc = "up"
    /\ ~shutdown_event
    /\ shutdown_event' = TRUE
    /\ shutdownInFlight' = current_job_id
    /\ UNCHANGED <<proc, db, clock, crashes, faults, workerVars, hist, downloadFailed>>

\* ------------------------------------------------------- retry handler
\* A retry request for the job id is answered.
Retry(id) ==
    /\ UNCHANGED <<orch, al>>
    /\ proc = "up"
    /\ db' = RetryJob(db, id).db
    /\ hist' = HistAfter(hist, db, db')
    /\ UNCHANGED <<proc, clock, crashes, faults, workerVars, shutdown_event,
                   ghostVars>>

\* ---------------------------------------------------------- worker task
\* run() is entered: the first test of the while loop.
RunStart ==
    /\ UNCHANGED <<orch, al>>
    /\ pc = "start"
    /\ pc' = LoopTop(shutdown_event)
    /\ UNCHANGED <<proc, db, clock, crashes, faults, job, is_retry, exc,
                   current_job_id, shutdown_event, hist, ghostVars>>

\* get_next_queued answers.  With a job, _process_job runs up to its first
\* update; with none, the worker starts its wait.
Poll ==
    /\ UNCHANGED <<orch, al>>
    /\ pc = "poll"
    /\ IF GetNextQueued(db) = {}
       THEN /\ pc' = "wait"
            /\ UNCHANGED <<job, is_retry, current_job_id, clock>>
       ELSE \E i \in GetNextQueued(db) :
              LET b == BeginJob(RowToJob(db[i]), clock) IN
              /\ pc' = b.pc
              /\ job' = Some(b.job)
              /\ is_retry' = b.is_retry
              /\ current_job_id' = Some(b.job.id)
              /\ clock' = Tick(clock)
    /\ UNCHANGED <<proc, db, crashes, faults, exc, shutdown_event, hist,
                   ghostVars>>

\* wait_for(shutdown_event.wait(), poll_interval) ends, by the event or by
\* the timeout, and the loop comes round.
WaitDone ==
    /\ UNCHANGED <<orch, al>>
    /\ pc = "wait"
    /\ pc' = LoopTop(shutdown_event)
    /\ UNCHANGED <<proc, db, clock, crashes, faults, job, is_retry, exc,
                   current_job_id, shutdown_event, hist, ghostVars>>

\* A faulty _process_job: it gives up after an update when shutdown is set.
UpdateThenStopOnShutdown(next) ==
    /\ UNCHANGED <<orch, al>>
    /\ db' = RepoUpdate(db, Get(job))
    /\ hist' = HistAfter(hist, db, db')
    /\ pc' = IF shutdown_event THEN "stopped" ELSE next
    /\ UNCHANGED <<proc, clock, crashes, faults, job, is_retry, exc,
                   current_job_id, shutdown_event, ghostVars>>

\* A repository.update of the worker takes effect and the coroutine goes on
\* to the stage that follows it.
UpdateThen(next) ==
    /\ UNCHANGED <<orch, al>>
    /\ db' = RepoUpdate(db, Get(job))
    /\ hist' = HistAfter(hist, db, db')
    /\ pc' = next
    /\ UNCHANGED <<proc, clock, crashes, faults, job, is_retry, exc,
                   current_job_id, shutdown_event, ghostVars>>

\* A faulty end of _process_job: _current_job_id is not cleared.
UpdateAndReturnKeepsCurrentJob(failedDownload) ==
    /\ UNCHANGED <<orch, al>>
    /\ db' = RepoUpdate(db, Get(job))
    /\ hist' = HistAfter(hist, db, db')
    /\ downloadFailed' = IF failedDownload
                         THEN downloadFailed \cup {Get(job).id}
                         ELSE downloadFailed
    /\ job' = None
    /\ is_retry' = FALSE
    /\ exc' = None
    /\ pc' = LoopTop(shutdown_event)
    /\ UNCHANGED <<proc, clock, crashes, faults, current_job_id,
                   shutdown_event, shutdownInFlight>>

\* The update that ends _process_job: finally clears _current_job_id, run()
\* tests its loop condition.
UpdateAndReturn(failedDownload) ==
    /\ UNCHANGED <<orch, al>>
    /\ db' = RepoUpdate(db, Get(job))
    /\ hist' = HistAfter(hist, db, db')
    /\ downloadFailed' = IF failedDownload
                         THEN downloadFailed \cup {Get(job).id}
                         ELSE downloadFailed
    /\ job' = None
    /\ is_retry' = FALSE
    /\ exc' = None
    /\ current_job_id' = None
    /\ pc' = LoopTop(shutdown_event)
    /\ UNCHANGED <<proc, clock, crashes, faults, shutdown_event, shutdownInFlight>>

UpdateDownloadStart == pc = "upd_dl_start" /\ UpdateThen("download")

\* What download_youtube_audio raises: its own error classes (everything
\* yt-dlp raises is wrapped into them), or an OSError of its mkdir.
DownloadErrors ==
    {Exc("YouTubeDownloadError", "Download failed"),
     Exc("OSError", "Permission denied")}

\* to_thread(download_youtube_audio) returns the path.
DownloadOk ==
    /\ UNCHANGED <<orch, al>>
    /\ pc = "download"
    /\ job' = Some(DownloadSucceeded(Get(job)))
    /\ pc' = "upd_dl_ok"
    /\ UNCHANGED <<proc, db, clock, crashes, faults, is_retry, exc,
                   current_job_id, shutdown_event, hist, ghostVars>>

\* to_thread(download_youtube_audio) raises e: the inner handler for the
\* downloader's own errors, the outer one for anything else.
DownloadRaises(e) ==
    /\ UNCHANGED <<orch, al>>
    /\ pc = "download"
    /\ exc' = Some(e)
    /\ job' = Some(FailJob(Get(job), e, clock))
    /\ clock' = Tick(clock)
    /\ pc' = IF IsDownloadError(e) THEN "upd_dl_err" ELSE "upd_error"
    /\ UNCHANGED <<proc, db, crashes, faults, is_retry, current_job_id,
                   shutdown_event, hist, ghostVars>>

DownloadFails == \E e \in DownloadErrors : DownloadRaises(e)

UpdateDownloadOk == pc = "upd_dl_ok" /\ UpdateThen("orch")

UpdateDownloadError == pc = "upd_dl_err" /\ UpdateAndReturn(TRUE)

UpdateProcessing == pc = "upd_processing" /\ UpdateThen("orch")

\* to_thread(_run_transcription_with_orchestrator) ends in the environment
\* env: the result is mapped onto the job, or the exception is handled.
OrchestrationDone(env) ==
    /\ UNCHANGED <<orch, al>>
    /\ pc = "orch"
    /\ LET j == Get(job)
           r == RunTranscriptionWithOrchestrator(j.diarize, env)
       IN IF r.raised
          THEN /\ exc' = Some(r.exc)
               /\ pc' = "upd_error"
          ELSE /\ exc' = None
               /\ pc' = "upd_final"
    /\ job' = Some(AfterOrchestration(Get(job), env, clock))
    /\ clock' = Tick(clock)
    /\ UNCHANGED <<proc, db, crashes, faults, is_retry, current_job_id,
                   shutdown_event, hist, ghostVars>>

Orchestration == \E env \in Envs : OrchestrationDone(env)

UpdateFinal == pc = "upd_final" /\ UpdateAndReturn(FALSE)

\* The update of the outer except handler.  The row is still DOWNLOADING
\* exactly when the exception came out of the download stage.
UpdateError ==
    /\ pc = "upd_error"
    /\ UpdateAndReturn(db[Get(job).id].status = DOWNLOADING)

WorkerStep ==
    \/ RunStart
    \/ Poll
    \/ WaitDone
    \/ UpdateDownloadStart
    \/ DownloadOk
    \/ DownloadFails
    \/ UpdateDownloadOk
    \/ UpdateDownloadError
    \/ UpdateProcessing
    \/ Orchestration
    \/ UpdateFinal
    \/ UpdateError

\* ----------------------------------------------------- repository faults
RepositoryError == Exc("OperationalError", "database is locked")

\* get_next_queued raises inside run()'s try: the loop is left.
PollRaises ==
    /\ UNCHANGED <<orch, al>>
    /\ pc = "poll"
    /\ faults < MaxFaults
    /\ faults' = faults + 1
    /\ pc' = "stopped"
    /\ UNCHANGED <<proc, db, clock, crashes, job, is_retry, exc, current_job_id,
                   shutdown_event, hist, ghostVars>>

\* An update inside _process_job's try raises: the outer handler takes it.
UpdateRaises ==
    /\ UNCHANGED <<orch, al>>
    /\ pc \in {"upd_dl_start", "upd_dl_ok", "upd_dl_err", "upd_processing",
               "upd_final"}
    /\ faults < MaxFaults
    /\ faults' = faults + 1
    /\ exc' = Some(RepositoryError)
    /\ job' = Some(FailJob(Get(job), RepositoryError, clock))
    /\ clock' = Tick(clock)
    /\ pc' = "upd_error"
    /\ UNCHANGED <<proc, db, crashes, is_retry, current_job_id, shutdown_event, hist, ghostVars>>

\* The outer handler's own update raises: the exception leaves _process_job
\* (finally clears _current_job_id) and is caught by run()'s except, outside
\* the loop.
ErrorUpdateRaises ==
    /\ UNCHANGED <<orch, al>>
    /\ pc = "upd_error"
    /\ faults < MaxFaults
    /\ faults' = faults + 1
    /\ job' = None
    /\ is_retry' = FALSE
    /\ exc' = None
    /\ current_job_id' = None
    /\ pc' = "stopped"
    /\ UNCHANGED <<proc, db, clock, crashes, shutdown_event, hist, ghostVars>>

\* The worker's observability accessors.
IsProcessing == current_job_id # None

\* The positions of the worker task that lie inside a _process_job call.
InProcessJob ==
    pc \in {"upd_dl_start", "download", "upd_dl_ok", "upd_dl_err",
            "upd_processing", "orch", "upd_final", "upd_error"}

\* The job stored under an id, as repository.get returns it.
Stored(i) == Get(RepoGet(db, i))

\* ------------------------------------------------------- specifications
Next ==
    \/ Lifespan
    \/ Crash
    \/ CreateJob
    \/ Shutdown
    \/ \E id \in 1..(MaxJobs + 1) : Retry(id)
    \/ WorkerStep

Spec == Init /\ [][Next]_vars

\* The same system with a repository whose calls can raise.
FaultNext ==
    \/ Next
    \/ PollRaises
    \/ UpdateRaises
    \/ ErrorUpdateRaises

FaultSpec == Init /\ [][FaultNext]_vars

\* The event loop runs the worker task whenever it can go on, and the threads
\* it waits for end.
\* The worker alone, started on a repository that holds one eligible job of
\* any shape a caller of repository.create can give it: result_text and
\* diarization_error each unset, empty or a text.
PickedTexts == {None, Some(""), Some("Previous transcription")}
PickedErrors == {None, Some(""), Some("HF token was missing")}

WorkerInit ==
    /\ proc = "up"
    /\ \E status \in {QUEUED, DOWNLOADING}, diarize \in BOOLEAN,
          text \in PickedTexts, err \in PickedErrors :
         db = RepoCreate(<<>>,
                [NewJob(1,
                        IF status = DOWNLOADING THEN YOUTUBE_URL ELSE UPLOAD_PATH,
                        status,
                        IF status = DOWNLOADING THEN Some(0) ELSE None,
                        diarize, 0)
                 EXCEPT !.result_text = text, !.diarization_error = err])
    /\ clock = Tick(0)
    /\ crashes = 0
    /\ faults = 0
    /\ pc = "start"
    /\ job = None
    /\ is_retry = FALSE
    /\ exc = None
    /\ current_job_id = None
    /\ shutdown_event = FALSE
    /\ hist = <<"fresh">>
    /\ shutdownInFlight = None
    /\ downloadFailed = {}
    /\ orch = OrchIdle
    /\ al = AlignIdle

WorkerSpec == WorkerInit /\ [][WorkerStep]_vars

\* ------------------------------------- the worker over the helper's returns
\* The dicts the return statements of _run_transcription_with_orchestrator
\* build: the plain one, the three with an error code, and the one built
\* from an OrchestrationResult (with the speakers detected when it
\* succeeded), as the worker tests hand them to _process_job.
ReturnedDicts(diarize) ==
    IF ~diarize
    THEN {ResultDict(PlainOf(t), FALSE, None, None, None) : t \in {"empty", "text"}}
    ELSE {ResultDict(PlainOf("text"), FALSE, None, Some(code), Some("reason")) :
            code \in {"hf_token_required", "hf_token_invalid", "diarization_failed"}}
         \cup {ResultDict(MarkdownOf("text"), TRUE, Some(n), None, None) :
                 n \in 1..MaxSpeakers}
         \cup {ResultDict(SavedPlainOf("text"), FALSE, None, None, None)}

\* to_thread(_run_transcription_with_orchestrator) returns one of these
\* dicts and it is mapped onto the job.
HelperReturns(result) ==
    /\ UNCHANGED <<orch, al>>
    /\ pc = "orch"
    /\ result \in ReturnedDicts(Get(job).diarize)
    /\ exc' = None
    /\ pc' = "upd_final"
    /\ job' = Some(ApplyResult(Get(job), result, clock))
    /\ clock' = Tick(clock)
    /\ UNCHANGED <<proc, db, crashes, faults, is_retry, current_job_id,
                   shutdown_event, hist, ghostVars>>

HelperNext ==
    \/ WorkerStep
    \/ \E result \in ReturnedDicts(TRUE) \cup ReturnedDicts(FALSE) :
          HelperReturns(result)

HelperSpec == WorkerInit /\ [][HelperNext]_vars

LiveSpec == Spec /\ WF_vars(WorkerStep)

\* The same scheduling with a repository whose calls can raise.
FaultLiveSpec == FaultSpec /\ WF_vars(WorkerStep)

\* ============================================== one orchestrate call
\* TranscriptionOrchestrator.orchestrate followed step by step, one step per
\* call of a collaborator.  Percentages are hundredths of a percent.
\*
\* What the unified pipeline and the plain transcriber report to the progress
\* callback they are given, in order, before they return or raise.
PipelineStages == <<0, 500, 4000, 6000, 9000, 10000>>
TranscriberStages == <<5000, 10000>>

\* scaled_progress: pct * 0.9; the lambda of _transcribe_fallback:
\* pct * 0.9 / 100.
ScaledProgress(pct) == (pct * 9) \div 10
FallbackProgress(pct) == (pct * 9) \div 1000

PipelineReports(n) == [k \in 1..n |-> ScaledProgress(PipelineStages[k])]
TranscriberReports(n) == [k \in 1..n |-> FallbackProgress(TranscriberStages[k])]

\* The segments the two backends produce, and the files written from them.
PipelineSegments == <<"Speaker one says hello">>
FallbackSegments == <<"First segment">>
PlainFile(segments) ==
    [kind |-> "plain",
     lines |-> <<"# Transcript", "(Speaker detection unavailable)">> \o segments]
MarkdownFile(segments) == [kind |-> "markdown", lines |-> segments]

\* A faulty with_suffix: the caller's suffix is kept.
WithSuffixKeepsCallers(path, suffix) == path

\* Path.with_suffix: the path with its suffix replaced.
WithSuffix(path, suffix) == [path EXCEPT !.suffix = suffix]

\* The orchestrators and calls followed: which backends the orchestrator
\* holds, the arguments of the call, and what the collaborators will do (the
\* pipeline's outcome and how many stages it has reported by then: all of
\* them or none when it returns, none or those up to "Detecting speakers"
\* when it raises; the transcriber's outcome and reports; the formatter).
OrchCalls ==
    {c \in [pipeline : BOOLEAN, transcriber : BOOLEAN,
            enable_diarization : BOOLEAN, callback : BOOLEAN,
            output_path : [stem : {"out"}, suffix : {".md", ".txt", ".out"}],
            pipe : PipelineOutcomes, reported : {0, 4, 6},
            transcribe : {"ok", "raise"}, treported : {0, 2},
            format : {"ok", "raise"}, speakers : 1..MaxSpeakers] :
        IF c.pipe = "ok" THEN c.reported \in {0, 6} ELSE c.reported \in {0, 4}}

\* progress_callback(phase, pct) for each pct of ps, when a callback is given.
Progress(o, ps) == IF o.in.callback THEN o.progress \o ps ELSE o.progress

\* A faulty entry: the callback is told 0% before the backends are looked at.
EnterProgressAlways(c, branch) == <<0>>

\* The branch orchestrate takes at its entry, and what it reports there.
EnterBranch(c) ==
    IF c.enable_diarization /\ c.pipeline THEN "pipeline"
    ELSE IF c.transcriber THEN "fallback"
    ELSE "raised"

EnterProgress(c, branch) == IF branch = "pipeline" THEN <<0>> ELSE <<>>

ConfigurationError ==
    Exc("ValueError", "Transcription requires either pipeline or transcriber")

\* Faulty except clauses: no fallback after a diarization error; an
\* authentication error handled like a diarization error.
AfterPipelineNoFallback(outcome, has_transcriber) ==
    CASE outcome = "ok" -> [next |-> "format", exc |-> None]
      [] outcome = "auth" ->
            [next |-> "raised",
             exc |-> Some(Exc("AuthenticationError",
                              "HuggingFace authentication failed"))]
      [] outcome = "diar" ->
            [next |-> "raised",
             exc |-> Some(Exc("DiarizationError",
                    "Diarization failed and no fallback transcriber available"))]
      [] OTHER ->
            [next |-> "raised",
             exc |-> Some(Exc("DiarizationError", "Pipeline failed"))]

AfterPipelineAuthFallsBack(outcome, has_transcriber) ==
    CASE outcome = "ok" -> [next |-> "format", exc |-> None]
      [] outcome \in {"auth", "diar"} ->
            IF has_transcriber THEN [next |-> "fallback", exc |-> None]
            ELSE [next |-> "raised",
                  exc |-> Some(Exc("DiarizationError",
                    "Diarization failed and no fallback transcriber available"))]
      [] OTHER ->
            [next |-> "raised",
             exc |-> Some(Exc("DiarizationError", "Pipeline failed"))]

\* A faulty except clause: any other exception of the pipeline handled like a
\* diarization error.
AfterPipelineOtherFallsBack(outcome, has_transcriber) ==
    CASE outcome = "ok" -> [next |-> "format", exc |-> None]
      [] outcome = "auth" ->
            [next |-> "raised",
             exc |-> Some(Exc("AuthenticationError",
                              "HuggingFace authentication failed"))]
      [] OTHER ->
            IF has_transcriber THEN [next |-> "fallback", exc |-> None]
            ELSE [next |-> "raised",
                  exc |-> Some(Exc("DiarizationError",
                    "Diarization failed and no fallback transcriber available"))]

\* The try/except around pipeline.transcribe_and_diarize: where the call goes
\* after the pipeline returned or raised, and the exception that leaves
\* orchestrate.
AfterPipeline(outcome, has_transcriber) ==
    CASE outcome = "ok" -> [next |-> "format", exc |-> None]
      [] outcome = "auth" ->
            [next |-> "raised",
             exc |-> Some(Exc("AuthenticationError",
                              "HuggingFace authentication failed"))]
      [] outcome = "diar" ->
            IF has_transcriber THEN [next |-> "fallback", exc |-> None]
            ELSE [next |-> "raised",
                  exc |-> Some(Exc("DiarizationError",
                    "Diarization failed and no fallback transcriber available"))]
      [] OTHER ->
            [next |-> "raised",
             exc |-> Some(Exc("DiarizationError", "Pipeline failed"))]

\* A faulty format stage: a formatter that raises still counts as success.
FormatStageKeepsSuccess(succeeded, format) ==
    IF succeeded /\ format = "ok"
    THEN [suffix |-> ".md", markdown |-> TRUE, succeeded |-> TRUE]
    ELSE [suffix |-> ".txt", markdown |-> FALSE, succeeded |-> succeeded]

\* The format-and-save stage: the suffix and kind of the file written and
\* the value diarization_succeeded has after it.
FormatStage(succeeded, format) ==
    IF succeeded /\ format = "ok"
    THEN [suffix |-> ".md", markdown |-> TRUE, succeeded |-> TRUE]
    ELSE [suffix |-> ".txt", markdown |-> FALSE, succeeded |-> FALSE]

\* The call as orchestrate is entered.
OrchEntered(c) ==
    [pc |-> "enter", in |-> c, progress |-> <<>>,
     calls |-> [pipeline |-> 0, transcriber |-> 0, formatter |-> 0],
     files |-> {}, segments |-> <<>>, diarization_succeeded |-> FALSE,
     speakers_detected |-> 0, diarization_time |-> None,
     result |-> None, exc |-> None]

OrchInit ==
    /\ proc = "down"
    /\ db = <<>>
    /\ clock = 0
    /\ crashes = 0
    /\ faults = 0
    /\ pc = "none"
    /\ job = None
    /\ is_retry = FALSE
    /\ exc = None
    /\ current_job_id = None
    /\ shutdown_event = FALSE
    /\ hist = <<>>
    /\ shutdownInFlight = None
    /\ downloadFailed = {}
    /\ \E c \in OrchCalls : orch = OrchEntered(c)
    /\ al = AlignIdle

serverVars ==
    <<proc, db, clock, crashes, faults, pc, job, is_retry, exc,
      current_job_id, shutdown_event, hist, shutdownInFlight, downloadFailed>>

\* The entry of orchestrate: the test of the backends.
OrchEnter ==
    /\ orch.pc = "enter"
    /\ LET branch == EnterBranch(orch.in)
       IN orch' = [orch EXCEPT
                !.pc = branch,
                !.progress = Progress(orch, EnterProgress(orch.in, branch)),
                !.exc = IF branch = "raised" THEN Some(ConfigurationError)
                        ELSE None]
    /\ UNCHANGED <<serverVars, al>>

\* pipeline.transcribe_and_diarize returns or raises.
OrchPipeline ==
    /\ orch.pc = "pipeline"
    /\ LET c == orch.in
           after == AfterPipeline(c.pipe, c.transcriber)
           reported == Progress(orch, PipelineReports(c.reported))
       IN orch' = [orch EXCEPT
                !.pc = after.next,
                !.calls.pipeline = @ + 1,
                !.exc = after.exc,
                !.progress = IF after.next = "format" /\ c.callback
                             THEN reported \o <<9000>> ELSE reported,
                !.segments = IF after.next = "format" THEN PipelineSegments
                             ELSE @,
                !.speakers_detected = IF after.next = "format" THEN c.speakers
                                      ELSE @,
                !.diarization_time = IF after.next = "format" THEN Some(1)
                                     ELSE @,
                !.diarization_succeeded = (after.next = "format")]
    /\ UNCHANGED <<serverVars, al>>

\* _transcribe_fallback: transcriber.transcribe_to_segments returns or raises.
OrchFallback ==
    /\ orch.pc = "fallback"
    /\ LET c == orch.in
           started == Progress(orch, <<0>>)
           reported == IF c.callback
                       THEN started \o TranscriberReports(c.treported)
                       ELSE started
       IN orch' = IF c.transcribe = "raise"
                  THEN [orch EXCEPT !.pc = "raised",
                                    !.calls.transcriber = @ + 1,
                                    !.progress = reported,
                                    !.exc = Some(TranscribeError)]
                  ELSE [orch EXCEPT !.pc = "format",
                                    !.calls.transcriber = @ + 1,
                                    !.progress = IF c.callback
                                                 THEN reported \o <<9000>>
                                                 ELSE reported,
                                    !.segments = FallbackSegments,
                                    !.diarization_succeeded = FALSE]
    /\ UNCHANGED <<serverVars, al>>

\* "Format and save", the last report and the return.
OrchFormat ==
    /\ orch.pc = "format"
    /\ LET c == orch.in
           f == FormatStage(orch.diarization_succeeded, c.format)
           final_output == WithSuffix(c.output_path, f.suffix)
           content == IF f.markdown THEN MarkdownFile(orch.segments)
                      ELSE PlainFile(orch.segments)
       IN orch' = [orch EXCEPT
                !.pc = "returned",
                !.calls.formatter = IF orch.diarization_succeeded THEN @ + 1
                                    ELSE @,
                !.files = @ \cup {[path |-> final_output, content |-> content]},
                !.diarization_succeeded = f.succeeded,
                !.progress = Progress(orch, <<9000, 10000>>),
                !.result = Some([output_path |-> final_output,
                                 speakers_detected |-> orch.speakers_detected,
                                 diarization_time |-> orch.diarization_time,
                                 diarization_succeeded |-> f.succeeded])]
    /\ UNCHANGED <<serverVars, al>>

OrchNext == OrchEnter \/ OrchPipeline \/ OrchFallback \/ OrchFormat

OrchSpec == OrchInit /\ [][OrchNext]_vars

\* ============================================ one align_timestamps call
\* timestamp_aligner.align_timestamps followed step by step, one step per
\* transcript segment.  Times are in half seconds; a text is the sequence of
\* its words and whitespace runs (" ").
Max(a, b) == IF a >= b THEN a ELSE b
Min(a, b) == IF a <= b THEN a ELSE b

\* The 0.5 s of _detect_overlapping_speech, in half seconds.
OVERLAP_THRESHOLD == 1

MULTIPLE_SPEAKERS == "Multiple speakers"
UNKNOWN == "UNKNOWN"

\* str.split() and " ".join(words).
SplitWords(text) == SelectSeq(text, LAMBDA c : c # " ")
JoinWords(words) ==
    [k \in 1..(IF words = <<>> THEN 0 ELSE 2 * Len(words) - 1) |->
        IF k % 2 = 1 THEN words[(k + 1) \div 2] ELSE " "]

\* _calculate_intersection
CalculateIntersection(seg_start, seg_end, spk_start, spk_end) ==
    IF Max(seg_start, spk_start) < Min(seg_end, spk_end)
    THEN Min(seg_end, spk_end) - Max(seg_start, spk_start)
    ELSE 0

\* A faulty search: the turn's own bounds are kept, not the intersection.
FindSpeakersInRangeUnclipped(start, end, segments) ==
    LET hits == SelectSeq(segments,
                  LAMBDA t : CalculateIntersection(start, end, t.start, t.end) > 0)
    IN [k \in 1..Len(hits) |->
          [speaker |-> hits[k].speaker, start |-> hits[k].start,
           end |-> hits[k].end]]

\* _find_speakers_in_range: the turns that intersect [start, end], in the
\* diarization's order, each cut to the intersection.
FindSpeakersInRange(start, end, segments) ==
    LET hits == SelectSeq(segments,
                  LAMBDA t : CalculateIntersection(start, end, t.start, t.end) > 0)
    IN [k \in 1..Len(hits) |->
          [speaker |-> hits[k].speaker,
           start |-> Max(start, hits[k].start),
           end |-> Min(end, hits[k].end)]]

\* A faulty overlap test: only neighbouring entries are compared.
DetectOverlappingSpeechNeighbours(speakers) ==
    /\ Len(speakers) > 1
    /\ \E i \in 1..(Len(speakers) - 1) :
          CalculateIntersection(speakers[i].start, speakers[i].end,
                                speakers[i + 1].start, speakers[i + 1].end)
            > OVERLAP_THRESHOLD

\* _detect_overlapping_speech
DetectOverlappingSpeech(speakers) ==
    /\ Len(speakers) > 1
    /\ \E i \in 1..Len(speakers), j \in 1..Len(speakers) :
          /\ i < j
          /\ CalculateIntersection(speakers[i].start, speakers[i].end,
                                   speakers[j].start, speakers[j].end)
               > OVERLAP_THRESHOLD

\* speakers_in_range.sort(key=lambda x: x[1]): a stable sort by start.
SortByStart(speakers) ==
    LET rank(k) == Cardinality({j \in 1..Len(speakers) :
                        \/ speakers[j].start < speakers[k].start
                        \/ speakers[j].start = speakers[k].start /\ j < k}) + 1
    IN [r \in 1..Len(speakers) |->
          speakers[CHOOSE k \in 1..Len(speakers) : rank(k) = r]]

\* A faulty word count: no minimum of one word.
WordCountNoMinimum(n, speaker_duration, total_duration) ==
    IF total_duration > 0 THEN (n * speaker_duration) \div total_duration ELSE 0

\* A faulty word count: the product is rounded to the nearest integer and
\* not truncated.
WordCountRounded(n, speaker_duration, total_duration) ==
    Max(1, IF total_duration > 0
           THEN (2 * n * speaker_duration + total_duration)
                  \div (2 * total_duration)
           ELSE 0)

\* max(1, int(len(words) * proportion)), with
\* proportion = speaker_duration / total_duration.
WordCount(n, speaker_duration, total_duration) ==
    Max(1, IF total_duration > 0
           THEN (n * speaker_duration) \div total_duration ELSE 0)

\* words[a:b]
Slice(words, a, b) ==
    IF a >= Min(b, Len(words)) THEN <<>>
    ELSE SubSeq(words, a + 1, Min(b, Len(words)))

\* The loop over the sorted speakers of a segment that is split: the pieces
\* from the i-th speaker on, word_idx words being given out already.
RECURSIVE SplitPieces(_, _, _, _, _)
SplitPieces(speakers, i, words, word_idx, total_duration) ==
    IF i > Len(speakers) THEN <<>>
    ELSE LET last == (i = Len(speakers))
             word_count == WordCount(Len(words),
                                     speakers[i].end - speakers[i].start,
                                     total_duration)
             speaker_words == IF last THEN Slice(words, word_idx, Len(words))
                              ELSE Slice(words, word_idx, word_idx + word_count)
             piece == [start |-> speakers[i].start, end |-> speakers[i].end,
                       speaker |-> speakers[i].speaker,
                       text |-> JoinWords(speaker_words)]
         IN (IF speaker_words # <<>> THEN <<piece>> ELSE <<>>)
            \o SplitPieces(speakers, i + 1, words,
                           IF last THEN word_idx ELSE word_idx + word_count,
                           total_duration)

\* Which branch of the loop body a segment takes.
SegmentBranch(seg, diarization) ==
    LET speakers_in_range ==
            FindSpeakersInRange(seg.start, seg.end, diarization.segments)
    IN IF speakers_in_range = <<>> THEN "unknown"
       ELSE IF Len(speakers_in_range) = 1 THEN "one"
       ELSE IF DetectOverlappingSpeech(speakers_in_range) THEN "overlap"
       ELSE "split"

\* The body of the loop over the transcript segments: what one segment adds
\* to the output.
AlignSegment(seg, diarization) ==
    LET speakers_in_range ==
            FindSpeakersInRange(seg.start, seg.end, diarization.segments)
        whole(speaker) == <<[start |-> seg.start, end |-> seg.end,
                             speaker |-> speaker, text |-> seg.text]>>
    IN IF speakers_in_range = <<>> THEN whole(UNKNOWN)
       ELSE IF Len(speakers_in_range) = 1
       THEN whole(speakers_in_range[1].speaker)
       ELSE IF DetectOverlappingSpeech(speakers_in_range)
       THEN whole(MULTIPLE_SPEAKERS)
       ELSE SplitPieces(SortByStart(speakers_in_range), 1,
                        SplitWords(seg.text), 0, seg.end - seg.start)

\* A faulty test of the single speaker case: it is never taken.
IsSingleSpeakerNever(diarization) == FALSE

\* diarization.speaker_count == 1
IsSingleSpeaker(diarization) == diarization.speaker_count = 1

\* The single speaker case: every segment as it is, with the speaker of the
\* first turn.
AlignSingleSpeaker(transcription_segments, diarization) ==
    LET single_speaker == IF diarization.segments # <<>>
                          THEN diarization.segments[1].speaker ELSE UNKNOWN
    IN [k \in 1..Len(transcription_segments) |->
          [start |-> transcription_segments[k].start,
           end |-> transcription_segments[k].end,
           speaker |-> single_speaker,
           text |-> transcription_segments[k].text]]

\* SpeakerDiarizer.diarize: the result built from the turns, speaker_count
\* being the number of distinct speakers among them.
DiarizationResult(segments) ==
    [segments |-> segments,
     speaker_count |-> Cardinality({segments[k].speaker : k \in DOMAIN segments})]

\* The calls followed.
Speakers == {"SPEAKER_00", "SPEAKER_01"}
WordList == <<"Hello", "world", "how", "are", "you">>
Text(n) == JoinWords(SubSeq(WordList, 1, n))
PaddedText == <<" ", "Hello", " ", " ", "world", " ">>
Texts == {Text(n) : n \in 0..MaxWords} \cup {PaddedText}
Turns == {t \in [start : 0..MaxTime, end : 0..MaxTime, speaker : Speakers] :
            t.start < t.end}
Segments == {g \in [start : 0..MaxTime, end : 0..MaxTime, text : Texts] :
               g.start <= g.end}
TurnSeqs(n) == UNION {[1..k -> Turns] : k \in 0..n}

\* The example of the specification: [3.0, 7.0] "Hello world how are you"
\* with SPEAKER_00 [0, 5] and SPEAKER_01 [5, 10].
ExampleCall ==
    [transcription_segments |-> <<[start |-> 6, end |-> 14, text |-> Text(5)]>>,
     diarization |-> DiarizationResult(
        <<[start |-> 0, end |-> 10, speaker |-> "SPEAKER_00"],
          [start |-> 10, end |-> 20, speaker |-> "SPEAKER_01"]>>)]

\* The calls followed: one transcript segment with up to MaxTurns turns, two
\* short segments with fewer turns, and the example.
OneSegmentCall(g, ts) ==
    [transcription_segments |-> <<g>>, diarization |-> DiarizationResult(ts)]
TwoSegmentCall(g, h, ts) ==
    [transcription_segments |-> <<g, h>>, diarization |-> DiarizationResult(ts)]
ShortSegments ==
    {x \in Segments : x.start < x.end /\ x.text \in {Text(1), Text(2)}}

AlignEntered(c) ==
    [pc |-> "call", transcription_segments |-> c.transcription_segments,
     diarization |-> c.diarization, i |-> 1, aligned |-> <<>>,
     branches |-> <<>>]

AlignInit ==
    /\ proc = "down"
    /\ db = <<>>
    /\ clock = 0
    /\ crashes = 0
    /\ faults = 0
    /\ pc = "none"
    /\ job = None
    /\ is_retry = FALSE
    /\ exc = None
    /\ current_job_id = None
    /\ shutdown_event = FALSE
    /\ hist = <<>>
    /\ shutdownInFlight = None
    /\ downloadFailed = {}
    /\ orch = OrchIdle
    /\ \/ \E g \in Segments, ts \in TurnSeqs(MaxTurns) :
            al = AlignEntered(OneSegmentCall(g, ts))
       \/ \E g \in ShortSegments, h \in ShortSegments,
             ts \in TurnSeqs(MaxTurns - 1) :
            al = AlignEntered(TwoSegmentCall(g, h, ts))
       \/ al = AlignEntered(ExampleCall)

\* The single speaker case: all segments at once, and the return.
AlignSingle ==
    /\ al.pc = "call"
    /\ IsSingleSpeaker(al.diarization)
    /\ al' = [al EXCEPT
            !.pc = "returned",
            !.aligned = AlignSingleSpeaker(al.transcription_segments,
                                           al.diarization),
            !.i = Len(al.transcription_segments) + 1,
            !.branches = [k \in 1..Len(al.transcription_segments) |-> "single"]]
    /\ UNCHANGED <<serverVars, orch>>

\* One pass of the loop over the transcript segments.
AlignNext ==
    /\ al.pc = "call"
    /\ ~IsSingleSpeaker(al.diarization)
    /\ al.i <= Len(al.transcription_segments)
    /\ LET seg == al.transcription_segments[al.i]
       IN al' = [al EXCEPT
               !.aligned = @ \o AlignSegment(seg, al.diarization),
               !.branches = Append(@, SegmentBranch(seg, al.diarization)),
               !.i = @ + 1]
    /\ UNCHANGED <<serverVars, orch>>

\* The loop is over: return aligned.
AlignReturn ==
    /\ al.pc = "call"
    /\ ~IsSingleSpeaker(al.diarization)
    /\ al.i > Len(al.transcription_segments)
    /\ al' = [al EXCEPT !.pc = "returned"]
    /\ UNCHANGED <<serverVars, orch>>

AlignStep == AlignSingle \/ AlignNext \/ AlignReturn

AlignSpec == AlignInit /\ [][AlignStep]_vars

\* ================================================================ claims
\* ------------------------------------------------------------- scheduling
\* C1: get_next_queued returns the job with the smallest created_at among the
\* jobs that are Queued or Downloading, and nothing when there is none: every
\* answer the worker gets from it is that job, so jobs are taken first in,
\* first out.
C1_OldestEligibleFirst ==
    [][(pc = "poll" /\ pc' \in {"wait", "upd_processing", "upd_dl_start"}) =>
        LET elig == {i \in DOMAIN db :
                        Stored(i).status \in {QUEUED, DOWNLOADING}}
        IN IF elig = {}
           THEN pc' = "wait" /\ current_job_id' = None
           ELSE /\ current_job_id' # None
                /\ Get(current_job_id') \in elig
                /\ \A k \in elig :
                     Stored(Get(current_job_id')).created_at
                        <= Stored(k).created_at]_vars

\* The worker was handed job 1 while the younger job 2 was waiting as well.
C1_Witness ==
    /\ pc \in {"upd_processing", "upd_dl_start"}
    /\ current_job_id = Some(1)
    /\ Len(db) = 2
    /\ \A i \in {1, 2} : Stored(i).status \in {QUEUED, DOWNLOADING}
    /\ Stored(1).created_at < Stored(2).created_at

\* C2 as stated: a job that has once been persisted as Processing is never
\* again returned by get_next_queued, so the job the worker has just been
\* handed was never Processing before.
C2_NeverReturnedAgain ==
    pc \in {"upd_processing", "upd_dl_start"} =>
        hist[Get(current_job_id)] = "fresh"

\* C2, amended: a job that has been persisted as Processing is not returned by
\* get_next_queued again unless startup recovery or a retry has set it back to
\* Queued since it last became Processing.
C2_NotReturnedUnlessRequeued ==
    pc \in {"upd_processing", "upd_dl_start"} =>
        hist[Get(current_job_id)] # "proc"

\* The worker was handed a job that was Processing earlier and has been set
\* back to Queued.
C2_Witness ==
    /\ pc = "upd_processing"
    /\ hist[Get(current_job_id)] = "requeued"

\* C3: the worker handles one job at a time.  While it runs at most one
\* persisted job is Processing, that job is the one it has in flight, and it
\* asks for the next job only when it has none in flight.
C3_OneJobAtATime ==
    pc # "none" =>
        LET processing == {i \in DOMAIN db : Stored(i).status = PROCESSING}
        IN /\ Cardinality(processing) <= 1
           /\ \A i \in processing : current_job_id = Some(i)
           /\ (pc \in {"start", "poll", "wait"} => current_job_id = None)

\* One job is Processing in the worker's hands while another one waits.
C3_Witness ==
    /\ pc = "orch"
    /\ Stored(Get(current_job_id)).status = PROCESSING
    /\ \E i \in DOMAIN db :
         i # Get(current_job_id) /\ Stored(i).status \in {QUEUED, DOWNLOADING}

\* C4: shutdown never aborts the job in flight.  When run() returns after a
\* shutdown() that was called while a job was in flight, that job has been
\* persisted with a terminal status and its completed_at.
C4_ShutdownFinishesJob ==
    [][(pc # "stopped" /\ pc' = "stopped" /\ shutdownInFlight # None) =>
        LET j == Get(RepoGet(db', Get(shutdownInFlight)))
        IN j.status \in Terminal /\ j.completed_at # None]_vars

\* run() has returned after a shutdown() called during a job, and that job
\* ended Completed or Partial with its transcript stored.
C4_Witness ==
    /\ pc = "stopped"
    /\ shutdownInFlight # None
    /\ Stored(Get(shutdownInFlight)).status \in {COMPLETED, PARTIAL}
    /\ Stored(Get(shutdownInFlight)).result_text # None

\* C5: after shutdown() run() eventually returns.  A worker idle in its poll
\* wait leaves the loop when the wait ends; a worker with a job in flight
\* stays on that job and leaves the loop when it is finished, without
\* starting another.
C5_ShutdownStopsWorker ==
    /\ shutdown_event ~> (pc = "stopped" \/ proc = "down")
    /\ [][(pc = "wait" /\ shutdown_event /\ pc' # "wait") =>
            pc' \in {"stopped", "none"}]_vars
    /\ [](shutdownInFlight # None =>
            (current_job_id = shutdownInFlight \/ pc = "stopped"))

\* run() has returned after a shutdown() called during a job, and a job that
\* was waiting has not been started.
C5_Witness ==
    /\ pc = "stopped"
    /\ shutdown_event
    /\ shutdownInFlight # None
    /\ \E i \in DOMAIN db :
         Stored(i).status \in {QUEUED, DOWNLOADING} /\ Stored(i).started_at = None

\* C6 as stated: run() leaves its loop only when shutdown has been signalled
\* and no job is in flight; nothing else, a failing repository call included,
\* stops the loop.
C6_StopsOnlyOnShutdown ==
    pc = "stopped" => (shutdown_event /\ current_job_id = None)

C8_DownloadFailureIsError ==
    \A i \in downloadFailed :
        /\ Stored(i).status = ERROR
        /\ Stored(i).error_message \in {Some(e.msg) : e \in DownloadErrors}
        /\ Stored(i).completed_at # None
        /\ Stored(i).result_text = None
        /\ hist[i] = "fresh"
        /\ current_job_id # Some(i)

\* A download failed with the downloader's own error, and the worker is busy
\* with the orchestration of another job.
C8_Witness ==
    /\ \E i \in downloadFailed :
         Stored(i).error_message = Some("Download failed")
    /\ pc = "orch"

\* C9: a job that was created for a URL and is in the orchestration stage has
\* been persisted as Processing with the local artifact path as its source and
\* download_progress 100, and the orchestration runs on that local path.
C9_DownloadedBeforeOrchestration ==
    (pc = "orch" /\ Stored(Get(current_job_id)).download_progress # None) =>
        /\ Stored(Get(current_job_id)).status = PROCESSING
        /\ Stored(Get(current_job_id)).audio_path = DOWNLOADED_PATH
        /\ Stored(Get(current_job_id)).download_progress = Some(100)
        /\ Get(job).audio_path = DOWNLOADED_PATH

\* The orchestration of a downloaded job is running in the same _process_job
\* call that downloaded it.
C9_Witness ==
    /\ pc = "orch"
    /\ Stored(Get(current_job_id)).download_progress = Some(100)
    /\ Stored(Get(current_job_id)).started_at # None
    /\ crashes = 0

\* ------------------------------------------------------------ diarization
\* C10 as stated: for a job with diarize=true, with an HF token available and
\* a unified backend (and formatter) that succeed, the orchestration call ends
\* with the job Completed, diarized=true and speaker_count equal to the number
\* of speakers detected.
C10_DiarizationSuccessCompletes ==
    [][pc = "orch" => \A env \in Envs :
         (/\ OrchestrationDone(env)
          /\ Get(job).diarize
          /\ env.hf_token
          /\ env.pipeline = "ok"
          /\ env.format = "ok"
          /\ env.transcribe # "raise") =>
            /\ Get(job').status = COMPLETED
            /\ Get(job').diarized = Some(TRUE)
            /\ Get(job').speaker_count = Some(env.speakers)]_vars

\* C11 as stated: for a job with diarize=true and no HF token the
\* orchestration stage leaves the job Partial with diarization_error_code
\* "hf_token_required", a non-empty result_text and diarized=false.
C11_NoTokenIsPartial ==
    (pc = "orch" /\ Get(job).diarize) =>
        \A env \in Envs :
            ~env.hf_token =>
                LET j == AfterOrchestration(Get(job), env, clock)
                IN /\ j.status = PARTIAL
                   /\ j.diarization_error_code = Some("hf_token_required")
                   /\ j.result_text \notin {None, Some("")}
                   /\ j.diarized = Some(FALSE)

\* C11, amended: for a job with diarize=true and no HF token, whenever the
\* plain transcription succeeds the job is left Partial with code
\* "hf_token_required", diarized=false and the plain transcript as
\* result_text (non-empty when the transcript is); the outcome is the same
\* whatever the diarization backend would have done, and every stored job
\* with that code is Partial with a result_text and diarized=false.
C11_NoTokenIsPartialWithTranscript ==
    /\ (pc = "orch" /\ Get(job).diarize) =>
         \A env \in Envs :
            (~env.hf_token /\ env.transcribe # "raise") =>
                LET j == AfterOrchestration(Get(job), env, clock)
                IN /\ j.status = PARTIAL
                   /\ j.diarization_error_code = Some("hf_token_required")
                   /\ j.diarization_error = Some(HF_TOKEN_REQUIRED_MSG)
                   /\ j.result_text = Some(PlainOf(env.transcribe))
                   /\ (env.transcribe = "text" => j.result_text # Some(""))
                   /\ j.diarized = Some(FALSE)
                   /\ j.speaker_count = None
                   /\ \A p \in PipelineOutcomes :
                        AfterOrchestration(Get(job),
                            [env EXCEPT !.pipeline = p], clock) = j
    /\ \A i \in DOMAIN db :
         Stored(i).diarization_error_code = Some("hf_token_required") =>
            /\ Stored(i).status = PARTIAL
            /\ Stored(i).diarize
            /\ Stored(i).result_text # None
            /\ Stored(i).diarized = Some(FALSE)

\* A job is stored Partial for the missing token, with its transcript.
C11_Witness ==
    \E i \in DOMAIN db :
        /\ Stored(i).status = PARTIAL
        /\ Stored(i).diarization_error_code = Some("hf_token_required")
        /\ Stored(i).result_text = Some(PlainOf("text"))

\* C12: for a job with diarize=true and an HF token present, a backend that
\* raises an authentication error leaves the job Partial with code
\* "hf_token_invalid", one that raises a diarization runtime error leaves it
\* Partial with code "diarization_failed"; in both cases the job carries the
\* plain transcript and is not Error.
C12_BackendFailureIsPartial ==
    (pc = "orch" /\ Get(job).diarize) =>
        \A env \in Envs :
            (env.hf_token /\ env.transcribe = "text"
                          /\ env.pipeline \in {"auth", "diar"}) =>
                LET j == AfterOrchestration(Get(job), env, clock)
                IN /\ j.status = PARTIAL
                   /\ j.status # ERROR
                   /\ j.diarization_error_code =
                        Some(IF env.pipeline = "auth" THEN "hf_token_invalid"
                             ELSE "diarization_failed")
                   /\ j.result_text = Some(PlainOf(env.transcribe))

\* C13: for a job with diarize=false whose transcription succeeds, the
\* orchestration stage leaves the job Completed with diarized=false,
\* speaker_count unset and no diarization error fields, and every stored
\* Completed job that did not ask for diarization has exactly that shape.
C13_PlainJobCompletes ==
    /\ (pc = "orch" /\ ~Get(job).diarize) =>
         \A env \in Envs :
            env.transcribe # "raise" =>
                LET j == AfterOrchestration(Get(job), env, clock)
                IN /\ j.status = COMPLETED
                   /\ j.diarized = Some(FALSE)
                   /\ j.speaker_count = None
                   /\ j.diarization_error = None
                   /\ j.diarization_error_code = None
                   /\ j.result_text = Some(PlainOf(env.transcribe))
                   /\ j.error_message = None
    /\ \A i \in DOMAIN db :
         ~Stored(i).diarize =>
            /\ Stored(i).status # PARTIAL
            /\ Stored(i).diarization_error = None
            /\ Stored(i).diarization_error_code = None
            /\ Stored(i).speaker_count = None
            /\ Stored(i).status = COMPLETED =>
                 /\ Stored(i).diarized = Some(FALSE)
                 /\ Stored(i).result_text # None

\* A job without diarization is stored Completed with its transcript.
C13_Witness ==
    \E i \in DOMAIN db :
        /\ ~Stored(i).diarize
        /\ Stored(i).status = COMPLETED
        /\ Stored(i).diarized = Some(FALSE)
        /\ Stored(i).result_text = Some(PlainOf("text"))

\* C14: a retry request is accepted only for a Partial job: it sets that job
\* to Queued, clears diarization_error and diarization_error_code and keeps
\* result_text (and every other field and every other job); for a job in any
\* other status, or an unknown id, the request is rejected and the table is
\* left as it was.
C14_RetryOnlyPartial ==
    \A id \in 1..(MaxJobs + 1) :
        LET r == RetryJob(db, id)
        IN IF id \in DOMAIN db /\ Stored(id).status = PARTIAL
           THEN /\ r.code = 202
                /\ DOMAIN r.db = DOMAIN db
                /\ \A i \in DOMAIN db : i # id => r.db[i] = db[i]
                /\ LET j == Get(RepoGet(r.db, id))
                   IN /\ j.status = QUEUED
                      /\ j.diarization_error = None
                      /\ j.diarization_error_code = None
                      /\ j.result_text = Stored(id).result_text
                      /\ j = [Stored(id) EXCEPT !.status = QUEUED,
                                                !.diarization_error = None,
                                                !.diarization_error_code = None]
           ELSE /\ r.code \in {400, 404}
                /\ r.code = 404 <=> id \notin DOMAIN db
                /\ r.db = db

\* A retried job: Queued again, with the transcript of its earlier run and
\* its diarization error cleared.
C14_Witness ==
    \E i \in DOMAIN db :
        /\ Stored(i).status = QUEUED
        /\ Stored(i).result_text # None
        /\ Stored(i).diarization_error = None
        /\ hist[i] = "requeued"

\* C15: when a Partial job has been retried and is processed again (it is
\* the job in flight and still carries the transcript of its earlier run),
\* a diarization that succeeds leaves it Completed with diarized=true and
\* with diarization_error and diarization_error_code cleared.
C15_RetrySuccessCompletes ==
    (pc = "orch" /\ Get(job).diarize /\ Get(job).result_text # None) =>
        \A env \in Envs :
            (env.hf_token /\ env.pipeline = "ok" /\ env.format = "ok") =>
                LET j == AfterOrchestration(Get(job), env, clock)
                IN /\ j.status = COMPLETED
                   /\ j.diarized = Some(TRUE)
                   /\ j.diarization_error = None
                   /\ j.diarization_error_code = None

C17_RecoveryResetsProcessing ==
    /\ proc = "down" =>
         /\ DOMAIN Recover(db) = DOMAIN db
         /\ \A i \in DOMAIN db :
              IF Stored(i).status = PROCESSING
              THEN /\ Get(RepoGet(Recover(db), i)).status = QUEUED
                   /\ Get(RepoGet(Recover(db), i)).started_at = None
                   /\ Get(RepoGet(Recover(db), i)) =
                        [Stored(i) EXCEPT !.status = QUEUED,
                                          !.started_at = None]
              ELSE Recover(db)[i] = db[i]
    /\ (proc = "up" /\ pc = "start") =>
         \A i \in DOMAIN db : Stored(i).status # PROCESSING

\* The process has started again after ending during a job: the job is
\* Queued with started_at cleared, and the worker has not yet polled.
C17_Witness ==
    /\ proc = "up"
    /\ pc = "start"
    /\ crashes > 0
    /\ \E i \in DOMAIN db :
         /\ hist[i] = "requeued"
         /\ Stored(i).status = QUEUED
         /\ Stored(i).started_at = None

\* C18: in every reachable state every stored job, and the job the worker
\* holds, has created_at <= started_at <= completed_at for the timestamps
\* that are set, also while a retried or recovered job is processed again.
C18_TimestampsOrdered ==
    LET Ordered(j) ==
            /\ j.started_at # None => j.created_at <= Get(j.started_at)
            /\ j.completed_at # None => j.created_at <= Get(j.completed_at)
            /\ (j.started_at # None /\ j.completed_at # None) =>
                    Get(j.started_at) <= Get(j.completed_at)
    IN /\ \A i \in DOMAIN db : Ordered(Stored(i))
       /\ job # None => Ordered(Get(job))

C20_ExactlyOneResultGroup ==
    \A i \in DOMAIN db :
        LET j == Stored(i)
            transcript == j.result_text # None /\ j.diarization_error = None
                            /\ j.diarization_error_code = None
            diarization == j.diarization_error # None
                            \/ j.diarization_error_code # None
            failure == j.error_message # None
        IN j.status \in Terminal =>
            \/ transcript /\ ~diarization /\ ~failure
            \/ ~transcript /\ diarization /\ ~failure
            \/ ~transcript /\ ~diarization /\ failure

\* C21: Completed and Error are terminal: no step of the system (worker
\* processing, startup recovery, a retry request, job creation) changes the
\* status of a stored job that is Completed or Error, and no step removes it.
C21_CompletedAndErrorAreTerminal ==
    [][\A i \in DOMAIN db :
          db[i].status \in {COMPLETED, ERROR} =>
              /\ i \in DOMAIN db'
              /\ db'[i].status = db[i].status]_vars

\* The process has been started again, and so has run its recovery, with a
\* Completed and an Error job in the table.
C21_Witness ==
    /\ proc = "up"
    /\ crashes > 0
    /\ \E i \in DOMAIN db : Stored(i).status = COMPLETED
    /\ \E i \in DOMAIN db : Stored(i).status = ERROR

\* C22: a stored job becomes Partial only in a step that finds it stored as
\* Processing, and every stored Partial job asked for diarization and has a
\* result_text, a diarization error code, diarized=false and no
\* speaker_count.
C22_PartialOnlyFromProcessing ==
    /\ [](\A i \in DOMAIN db :
            Stored(i).status = PARTIAL =>
                /\ Stored(i).diarize
                /\ Stored(i).result_text # None
                /\ Truthy(Stored(i).diarization_error_code)
                /\ Stored(i).diarized = Some(FALSE)
                /\ Stored(i).speaker_count = None)
    /\ [][\A i \in DOMAIN db' :
            (db'[i].status = PARTIAL
                /\ (i \notin DOMAIN db \/ db[i].status # PARTIAL)) =>
                /\ i \in DOMAIN db
                /\ db[i].status = PROCESSING
                /\ pc = "upd_final"
                /\ current_job_id = Some(i)]_vars

\* A job that asked for diarization is stored Partial with a transcript, a
\* diarization error code, diarized=false and no speaker_count, after it had
\* been stored as Processing.
C22_Witness ==
    \E i \in DOMAIN db :
        /\ Stored(i).status = PARTIAL
        /\ Stored(i).diarize
        /\ Stored(i).result_text # None
        /\ Truthy(Stored(i).diarization_error_code)
        /\ Stored(i).diarized = Some(FALSE)
        /\ Stored(i).speaker_count = None
        /\ hist[i] = "proc"

\* C23: is_processing is true exactly when current_job_id is set; inside a
\* running _process_job call current_job_id is the id of the job the call
\* holds; outside it (before the first poll, between jobs, in the wait,
\* after run() returned, after a job that failed) both are unset.
C23_AccessorsReflectJobInFlight ==
    /\ IsProcessing <=> current_job_id # None
    /\ InProcessJob =>
         /\ job # None
         /\ current_job_id = Some(Get(job).id)
         /\ IsProcessing
    /\ ~InProcessJob =>
         /\ job = None
         /\ current_job_id = None
         /\ ~IsProcessing

\* A job has failed and been stored as Error, the worker is back in its
\* loop, and the accessors are unset.
C23_Witness ==
    /\ pc \in {"poll", "wait"}
    /\ ~IsProcessing
    /\ current_job_id = None
    /\ \E i \in DOMAIN db :
         /\ Stored(i).status = ERROR
         /\ Stored(i).error_message # None

C25_DiarizationErrorFallsBack ==
    LET c == orch.in
    IN (orch.pc # "idle" /\ c.enable_diarization /\ c.pipeline
            /\ c.pipe = "diar" /\ c.transcriber) =>
        /\ orch.calls.transcriber <= 1
        /\ orch.calls.pipeline <= 1
        /\ orch.pc \in {"returned", "raised"} =>
             /\ orch.calls.transcriber = 1
             /\ orch.calls.pipeline = 1
        /\ orch.pc = "raised" => c.transcribe = "raise"
        /\ orch.pc = "returned" =>
             LET r == Get(orch.result)
             IN /\ ~r.diarization_succeeded
                /\ r.output_path.suffix = ".txt"
                /\ r.output_path.stem = c.output_path.stem
                /\ [path |-> r.output_path,
                    content |-> PlainFile(FallbackSegments)] \in orch.files
                /\ Cardinality(orch.files) = 1

\* A call has returned after the pipeline raised a diarization error and the
\* fallback transcriber ran, the caller having asked for a .md file.
C25_Witness ==
    /\ orch.pc = "returned"
    /\ orch.in.enable_diarization /\ orch.in.pipeline /\ orch.in.transcriber
    /\ orch.in.pipe = "diar"
    /\ orch.in.output_path.suffix = ".md"
    /\ orch.calls.transcriber = 1
    /\ ~Get(orch.result).diarization_succeeded

\* C26: in a call with diarization enabled whose unified pipeline raises an
\* authentication error, that error leaves orchestrate as it was raised, the
\* fallback transcriber is never invoked (whether or not one is held), the
\* formatter is not invoked and no file is written.
C26_AuthenticationErrorPropagates ==
    LET c == orch.in
    IN (orch.pc # "idle" /\ c.enable_diarization /\ c.pipeline
            /\ c.pipe = "auth") =>
        /\ orch.pc \in {"enter", "pipeline", "raised"}
        /\ orch.calls.transcriber = 0
        /\ orch.calls.formatter = 0
        /\ orch.files = {}
        /\ orch.result = None
        /\ orch.pc = "raised" =>
             /\ orch.calls.pipeline = 1
             /\ orch.exc # None
             /\ IsAuthenticationError(Get(orch.exc))
             /\ Get(orch.exc).msg = "HuggingFace authentication failed"

\* The authentication error has left a call whose orchestrator held a
\* fallback transcriber.
C26_Witness ==
    /\ orch.pc = "raised"
    /\ orch.in.enable_diarization /\ orch.in.pipeline /\ orch.in.transcriber
    /\ orch.in.pipe = "auth"
    /\ IsAuthenticationError(Get(orch.exc))
    /\ orch.files = {}

\* C27: a call on an orchestrator that holds neither a unified pipeline nor
\* a transcriber fails with the configuration error (ValueError) in its
\* first step: no backend and no formatter is invoked, the progress callback
\* is not called and no file is written, whatever the arguments.
C27_NoBackendFailsFast ==
    LET c == orch.in
    IN (orch.pc # "idle" /\ ~c.pipeline /\ ~c.transcriber) =>
        /\ orch.pc \in {"enter", "raised"}
        /\ orch.calls = [pipeline |-> 0, transcriber |-> 0, formatter |-> 0]
        /\ orch.progress = <<>>
        /\ orch.files = {}
        /\ orch.result = None
        /\ orch.pc = "raised" => orch.exc = Some(ConfigurationError)

\* The configuration error has left a call that asked for diarization and
\* gave a progress callback.
C27_Witness ==
    /\ orch.pc = "raised"
    /\ ~orch.in.pipeline /\ ~orch.in.transcriber
    /\ orch.in.enable_diarization /\ orch.in.callback
    /\ orch.exc = Some(ConfigurationError)
    /\ orch.progress = <<>>

\* C28: in a call whose unified pipeline returns and whose formatter raises,
\* orchestrate does not fail: it returns a result with diarization_succeeded
\* false and a .txt output path, and the file at that path is the plain
\* rendering of the segments the pipeline returned; the fallback transcriber
\* is not invoked and no .md file is written.
C28_FormattingErrorFallsBack ==
    LET c == orch.in
    IN (orch.pc # "idle" /\ c.enable_diarization /\ c.pipeline
            /\ c.pipe = "ok" /\ c.format = "raise") =>
        /\ orch.pc # "raised"
        /\ orch.exc = None
        /\ orch.calls.transcriber = 0
        /\ orch.pc = "returned" =>
             LET r == Get(orch.result)
             IN /\ ~r.diarization_succeeded
                /\ ~orch.diarization_succeeded
                /\ r.output_path.suffix = ".txt"
                /\ orch.calls.formatter = 1
                /\ orch.files = {[path |-> r.output_path,
                                  content |-> PlainFile(PipelineSegments)]}

\* A call has returned after the pipeline succeeded and the formatter
\* raised.
C28_Witness ==
    /\ orch.pc = "returned"
    /\ orch.in.enable_diarization /\ orch.in.pipeline
    /\ orch.in.pipe = "ok" /\ orch.in.format = "raise"
    /\ orch.calls.formatter = 1
    /\ ~Get(orch.result).diarization_succeeded
    /\ Get(orch.result).output_path.suffix = ".txt"

\* C29: every result orchestrate returns has an output path whose extension
\* is .md exactly when its diarization_succeeded is true and .txt otherwise,
\* with the caller's stem kept and the caller's own extension ignored; the
\* one file written by the call is at that path, and it is the
\* speaker-labeled rendering exactly when the extension is .md.
C29_SuffixMatchesOutcome ==
    orch.pc = "returned" =>
        LET r == Get(orch.result)
        IN /\ (r.output_path.suffix = ".md") <=> r.diarization_succeeded
           /\ (r.output_path.suffix = ".txt") <=> ~r.diarization_succeeded
           /\ r.output_path.stem = orch.in.output_path.stem
           /\ \A f \in orch.files :
                /\ f.path = r.output_path
                /\ (f.content.kind = "markdown") <=> r.diarization_succeeded
           /\ Cardinality(orch.files) = 1

\* A returned call whose caller passed a .txt path and whose result is
\* speaker-labeled: the result's path and the file written end in .md.
C29_Witness ==
    /\ orch.pc = "returned"
    /\ orch.in.output_path.suffix = ".txt"
    /\ Get(orch.result).diarization_succeeded
    /\ Get(orch.result).output_path.suffix = ".md"
    /\ \E f \in orch.files : f.path.suffix = ".md" /\ f.content.kind = "markdown"

\* C30: in an orchestrate call that was given a progress callback and has
\* returned, the percentages the callback received, in order, start at 0,
\* never decrease, and end at 100, whichever path the call took (the
\* pipeline, the plain transcriber alone, or the plain transcriber after a
\* pipeline that had already reported progress before it failed).
C30_ProgressMonotone ==
    (orch.pc = "returned" /\ orch.in.callback) =>
        LET p == orch.progress
        IN /\ Len(p) >= 2
           /\ p[1] = 0
           /\ p[Len(p)] = 10000
           /\ \A i \in 1..(Len(p) - 1) : p[i] <= p[i + 1]

\* C34: every result orchestrate returns with diarization_succeeded false
\* has speakers_detected 0 and diarization_time unset, whichever way the
\* call ended without speaker labels: diarization disabled, the fallback
\* after a diarization error, or the fallback after a formatting error.
C34_NoLabelsNoSpeakerFigures ==
    orch.pc = "returned" =>
        LET r == Get(orch.result)
        IN ~r.diarization_succeeded =>
             /\ r.speakers_detected = 0
             /\ r.diarization_time = None

\* C40: in a call that enters the pipeline branch and whose pipeline raises
\* an exception that is neither an AuthenticationError nor a
\* DiarizationError, orchestrate raises a DiarizationError "Pipeline failed"
\* (not an AuthenticationError); the fallback transcriber and the formatter
\* are never invoked, no file is written and no result is returned, also
\* when the orchestrator holds a fallback transcriber.
C40_OtherPipelineErrorIsWrapped ==
    LET c == orch.in
    IN (orch.pc # "idle" /\ c.enable_diarization /\ c.pipeline
            /\ c.pipe = "other") =>
        /\ orch.pc \in {"enter", "pipeline", "raised"}
        /\ orch.calls.transcriber = 0
        /\ orch.calls.formatter = 0
        /\ orch.files = {}
        /\ orch.result = None
        /\ orch.pc = "raised" =>
             /\ orch.calls.pipeline = 1
             /\ orch.exc = Some(Exc("DiarizationError", "Pipeline failed"))
             /\ IsDiarizationError(Get(orch.exc))
             /\ ~IsAuthenticationError(Get(orch.exc))

\* A call on an orchestrator that holds a fallback transcriber has ended
\* with the wrapped error after its pipeline raised some other exception.
C40_Witness ==
    /\ orch.pc = "raised"
    /\ orch.in.enable_diarization /\ orch.in.pipeline /\ orch.in.transcriber
    /\ orch.in.pipe = "other"
    /\ orch.calls = [pipeline |-> 1, transcriber |-> 0, formatter |-> 0]
    /\ orch.exc = Some(Exc("DiarizationError", "Pipeline failed"))

\* C37: when the worker processes a job that the retry transition moved
\* from Partial to Queued (it is the job in flight and still carries the
\* transcript of its earlier run, its diarization error fields cleared),
\* the orchestration call is made with is_retry true.
C37_RetriedJobIsRetry ==
    (pc = "orch" /\ Get(job).result_text # None) => is_retry

\* C38: every job that asked for diarization and is Completed, stored or in
\* the worker's hands, has diarized true and carries no diarization error;
\* a job that asked for diarization and whose transcript came back without
\* speaker labels is never Completed.
C38_CompletedDiarizeJobIsDiarized ==
    /\ \A i \in DOMAIN db :
         (Stored(i).diarize /\ Stored(i).status = COMPLETED) =>
            /\ Stored(i).diarized = Some(TRUE)
            /\ Stored(i).diarization_error_code = None
    /\ (job # None /\ Get(job).diarize /\ Get(job).status = COMPLETED) =>
            /\ Get(job).diarized = Some(TRUE)
            /\ Get(job).diarization_error_code = None
    /\ (pc = "orch" /\ Get(job).diarize) =>
         \A result \in ReturnedDicts(TRUE) :
            ~result.diarization_succeeded =>
                ApplyResult(Get(job), result, clock).status = PARTIAL

\* A job that asked for diarization is stored Completed with diarized true
\* and a speaker count.
C38_Witness ==
    \E i \in DOMAIN db :
        /\ Stored(i).diarize
        /\ Stored(i).status = COMPLETED
        /\ Stored(i).diarized = Some(TRUE)
        /\ Stored(i).speaker_count # None

\* C39: while the process runs and shutdown is not requested, with every
\* download and orchestration call ending, every job stored as Queued or
\* Downloading is eventually stored with a terminal status (Completed, Error
\* or Partial); and whenever a _process_job call returns, the job it
\* processed is stored with a terminal status, not as Processing or
\* Downloading.
C39_EveryJobReachesTerminal ==
    /\ \A i \in 1..MaxJobs :
         (i \in DOMAIN db /\ db[i].status \in {QUEUED, DOWNLOADING}
                          /\ proc = "up")
            ~> \/ i \in DOMAIN db /\ db[i].status \in Terminal
               \/ shutdown_event
               \/ proc = "down"
    /\ [][(current_job_id # None /\ current_job_id' = None
              /\ proc' = "up" /\ faults' = faults) =>
            db'[Get(current_job_id)].status \in Terminal]_vars

\* C31: when the diarization result has exactly one speaker, align_timestamps
\* returns one output segment per transcript segment, in order, each with the
\* start, end and text of its input segment and each labelled with the sole
\* speaker of the turns.
C31_SingleSpeakerKeepsSegments ==
    (al.pc = "returned" /\ al.diarization.speaker_count = 1) =>
        /\ Len(al.aligned) = Len(al.transcription_segments)
        /\ \A k \in 1..Len(al.transcription_segments) :
              /\ al.aligned[k].start = al.transcription_segments[k].start
              /\ al.aligned[k].end = al.transcription_segments[k].end
              /\ al.aligned[k].text = al.transcription_segments[k].text
              /\ \A t \in 1..Len(al.diarization.segments) :
                    al.aligned[k].speaker = al.diarization.segments[t].speaker

\* Two transcript segments, the second one crossing the boundary between two
\* turns of the same speaker, returned as they came.
C31_Witness ==
    /\ al.pc = "returned"
    /\ al.diarization.speaker_count = 1
    /\ Len(al.diarization.segments) = 2
    /\ al.diarization.segments[1].end = al.diarization.segments[2].start
    /\ Len(al.transcription_segments) = 2
    /\ al.transcription_segments[2].start < al.diarization.segments[1].end
    /\ al.transcription_segments[2].end > al.diarization.segments[2].start
    /\ al.transcription_segments[2].text = Text(2)
    /\ Len(al.aligned) = 2

\* C32: with two or more speakers, when two of the turns that intersect the
\* transcript segment being aligned overlap each other by more than 0.5 s
\* inside the segment's span, the pass of the loop adds the whole segment
\* once, with its start, end and text, labelled "Multiple speakers".
C32_OverlapIsMultipleSpeakers ==
    [][(/\ al.pc = "call"
        /\ al'.pc = "call"
        /\ al.diarization.speaker_count >= 2
        /\ LET seg == al.transcription_segments[al.i]
               turns == al.diarization.segments
           IN \E a \in 1..Len(turns), b \in 1..Len(turns) :
                 /\ a # b
                 /\ Min(Min(turns[a].end, turns[b].end), seg.end)
                      - Max(Max(turns[a].start, turns[b].start), seg.start)
                      > OVERLAP_THRESHOLD)
       => LET seg == al.transcription_segments[al.i]
          IN al'.aligned = Append(al.aligned,
                                  [start |-> seg.start, end |-> seg.end,
                                   speaker |-> MULTIPLE_SPEAKERS,
                                   text |-> seg.text])]_vars

\* A segment of two words under two turns of different speakers that share
\* a whole second of it, returned in one piece as "Multiple speakers".
C32_Witness ==
    /\ al.pc = "returned"
    /\ al.diarization.speaker_count = 2
    /\ Len(al.diarization.segments) = 2
    /\ al.diarization.segments[1].speaker # al.diarization.segments[2].speaker
    /\ Len(al.transcription_segments) = 1
    /\ Min(Min(al.diarization.segments[1].end, al.diarization.segments[2].end),
           al.transcription_segments[1].end)
         - Max(Max(al.diarization.segments[1].start,
                   al.diarization.segments[2].start),
               al.transcription_segments[1].start) = 2
    /\ al.transcription_segments[1].text = Text(2)
    /\ al.branches = <<"overlap">>
    /\ Len(al.aligned) = 1
    /\ al.aligned[1].speaker = MULTIPLE_SPEAKERS

\* C33 as stated: when two or more turns that do not overlap each other
\* intersect the transcript segment being aligned, the pass of the loop adds
\* at least two output segments, and their words, taken in order, are the
\* words of the segment.
C33_SplitGivesTwoPieces ==
    [][(/\ al.pc = "call"
        /\ al'.pc = "call"
        /\ al.diarization.speaker_count >= 2
        /\ LET seg == al.transcription_segments[al.i]
               turns == al.diarization.segments
               inside == {a \in 1..Len(turns) :
                            Max(seg.start, turns[a].start)
                              < Min(seg.end, turns[a].end)}
           IN /\ Cardinality(inside) >= 2
              /\ \A a \in inside, b \in inside :
                    a # b => Min(turns[a].end, turns[b].end)
                               <= Max(turns[a].start, turns[b].start))
       => LET RECURSIVE WordsOf(_)
              WordsOf(pieces) ==
                  IF pieces = <<>> THEN <<>>
                  ELSE SplitWords(Head(pieces).text) \o WordsOf(Tail(pieces))
              seg == al.transcription_segments[al.i]
              added == SubSeq(al'.aligned, Len(al.aligned) + 1, Len(al'.aligned))
          IN /\ Len(added) >= 2
             /\ WordsOf(added) = SplitWords(seg.text)]_vars

\* C33, amended: under the same turns, the words of the added output
\* segments, taken in order, are the words of the segment, none of them
\* twice and none dropped; a segment of two or more words adds at least two
\* output segments, a segment of one word adds one, and a segment without
\* words adds none.
C33_SplitKeepsWords ==
    [][(/\ al.pc = "call"
        /\ al'.pc = "call"
        /\ al.diarization.speaker_count >= 2
        /\ LET seg == al.transcription_segments[al.i]
               turns == al.diarization.segments
               inside == {a \in 1..Len(turns) :
                            Max(seg.start, turns[a].start)
                              < Min(seg.end, turns[a].end)}
           IN /\ Cardinality(inside) >= 2
              /\ \A a \in inside, b \in inside :
                    a # b => Min(turns[a].end, turns[b].end)
                               <= Max(turns[a].start, turns[b].start))
       => LET RECURSIVE WordsOf(_)
              WordsOf(pieces) ==
                  IF pieces = <<>> THEN <<>>
                  ELSE SplitWords(Head(pieces).text) \o WordsOf(Tail(pieces))
              seg == al.transcription_segments[al.i]
              words == SplitWords(seg.text)
              added == SubSeq(al'.aligned, Len(al.aligned) + 1, Len(al'.aligned))
          IN /\ WordsOf(added) = words
             /\ Len(words) >= 2 => Len(added) >= 2
             /\ Len(words) = 1 => Len(added) = 1
             /\ Len(words) = 0 => Len(added) = 0
             /\ \A k \in 1..Len(added) : SplitWords(added[k].text) # <<>>]_vars

\* A segment of three words under two turns of different speakers that meet
\* inside it, returned in two pieces.
C33_Witness ==
    /\ al.pc = "returned"
    /\ al.diarization.speaker_count = 2
    /\ Len(al.diarization.segments) = 2
    /\ al.diarization.segments[1].speaker # al.diarization.segments[2].speaker
    /\ al.diarization.segments[1].end = al.diarization.segments[2].start
    /\ Len(al.transcription_segments) = 1
    /\ al.transcription_segments[1].start < al.diarization.segments[1].end
    /\ al.transcription_segments[1].end > al.diarization.segments[2].start
    /\ al.transcription_segments[1].text = Text(3)
    /\ al.branches = <<"split">>
    /\ Len(al.aligned) = 2
    /\ SplitWords(al.aligned[1].text) \o SplitWords(al.aligned[2].text)
         = SplitWords(Text(3))

\* C35 as stated: when a segment is split between sequential turns, the
\* pieces come in order of start time, every piece but the last holds
\* max(1, round(wordCount * proportion)) words, the proportion being the
\* piece's duration over the segment's duration or over the sum of the
\* durations of the pieces' turns inside the segment, and the last piece
\* holds the words that remain.
C35_PiecesGetRoundedShare ==
    [][(/\ al.pc = "call"
        /\ al'.pc = "call"
        /\ al.diarization.speaker_count # 1
        /\ LET seg == al.transcription_segments[al.i]
               turns == al.diarization.segments
               inside == {a \in 1..Len(turns) :
                            Max(seg.start, turns[a].start)
                              < Min(seg.end, turns[a].end)}
           IN /\ Cardinality(inside) >= 2
              /\ \A a \in inside, b \in inside :
                    a # b =>
                      Min(Min(turns[a].end, turns[b].end), seg.end)
                        - Max(Max(turns[a].start, turns[b].start), seg.start)
                        <= OVERLAP_THRESHOLD)
       => LET seg == al.transcription_segments[al.i]
              turns == al.diarization.segments
              words == SplitWords(seg.text)
              added == SubSeq(al'.aligned, Len(al.aligned) + 1, Len(al'.aligned))
              held(k) == Len(SplitWords(added[k].text))
              RECURSIVE Overlapped(_)
              Overlapped(a) ==
                  IF a = 0 THEN 0
                  ELSE Overlapped(a - 1)
                       + Max(0, Min(seg.end, turns[a].end)
                                  - Max(seg.start, turns[a].start))
              RECURSIVE Before(_)
              Before(k) == IF k = 0 THEN 0 ELSE Before(k - 1) + held(k)
              Round(p, q) ==
                  LET f == p \div q
                      r == p % q
                  IN IF 2 * r > q \/ (2 * r = q /\ f % 2 = 1) THEN f + 1 ELSE f
          IN /\ \A k \in 1..(Len(added) - 1) :
                    added[k].start <= added[k + 1].start
             /\ \E whole \in {seg.end - seg.start, Overlapped(Len(turns))} :
                   \A k \in 1..(Len(added) - 1) :
                      held(k) = Max(1, Round(Len(words)
                                               * (added[k].end - added[k].start),
                                             whole))
             /\ Len(added) > 0 =>
                   held(Len(added)) = Len(words) - Before(Len(added) - 1)]_vars

\* C35, amended: when a segment is split between sequential turns, the
\* pieces come in order of start time, every piece but the last holds
\* max(1, floor(wordCount * proportion)) words, the proportion being the
\* piece's duration over the duration of the whole segment, and the last
\* piece holds the words that remain.
C35_PiecesGetTruncatedShare ==
    [][(/\ al.pc = "call"
        /\ al'.pc = "call"
        /\ al.diarization.speaker_count # 1
        /\ LET seg == al.transcription_segments[al.i]
               turns == al.diarization.segments
               inside == {a \in 1..Len(turns) :
                            Max(seg.start, turns[a].start)
                              < Min(seg.end, turns[a].end)}
           IN /\ Cardinality(inside) >= 2
              /\ \A a \in inside, b \in inside :
                    a # b =>
                      Min(Min(turns[a].end, turns[b].end), seg.end)
                        - Max(Max(turns[a].start, turns[b].start), seg.start)
                        <= OVERLAP_THRESHOLD)
       => LET seg == al.transcription_segments[al.i]
              words == SplitWords(seg.text)
              added == SubSeq(al'.aligned, Len(al.aligned) + 1, Len(al'.aligned))
              held(k) == Len(SplitWords(added[k].text))
              RECURSIVE Before(_)
              Before(k) == IF k = 0 THEN 0 ELSE Before(k - 1) + held(k)
          IN /\ \A k \in 1..(Len(added) - 1) :
                    /\ added[k].start <= added[k + 1].start
                    /\ held(k) = Max(1, (Len(words)
                                           * (added[k].end - added[k].start))
                                        \div (seg.end - seg.start))
             /\ Len(added) > 0 =>
                   held(Len(added)) = Len(words) - Before(Len(added) - 1)]_vars

\* Three words on a segment of one second that two turns share half and
\* half: the first piece holds one word, 1.5 truncated, and the second two.
C35_Witness ==
    /\ al.pc = "returned"
    /\ Len(al.transcription_segments) = 1
    /\ al.transcription_segments[1].end - al.transcription_segments[1].start = 2
    /\ al.transcription_segments[1].text = Text(3)
    /\ al.branches = <<"split">>
    /\ Len(al.aligned) = 2
    /\ al.aligned[1].end - al.aligned[1].start = 1
    /\ al.aligned[2].end - al.aligned[2].start = 1
    /\ al.aligned[1].text = Text(1)
    /\ Len(SplitWords(al.aligned[2].text)) = 2

\* C36: when a segment is split between sequential turns, every piece added
\* spans exactly the intersection of the segment with one of the turns and
\* carries that turn's speaker, the pieces come in order of start time and
\* lie inside the segment; and the call with the segment [3, 7] and the
\* turns SPEAKER_00 [0, 5] and SPEAKER_01 [5, 10] returns exactly two pieces,
\* [3, 5] of SPEAKER_00 and then [5, 7] of SPEAKER_01.
C36_PiecesSpanIntersections ==
    /\ [][(/\ al.pc = "call"
           /\ al'.pc = "call"
           /\ al.diarization.speaker_count # 1
           /\ LET seg == al.transcription_segments[al.i]
                  turns == al.diarization.segments
                  inside == {a \in 1..Len(turns) :
                               Max(seg.start, turns[a].start)
                                 < Min(seg.end, turns[a].end)}
              IN /\ Cardinality(inside) >= 2
                 /\ \A a \in inside, b \in inside :
                       a # b =>
                         Min(Min(turns[a].end, turns[b].end), seg.end)
                           - Max(Max(turns[a].start, turns[b].start), seg.start)
                           <= OVERLAP_THRESHOLD)
          => LET seg == al.transcription_segments[al.i]
                 turns == al.diarization.segments
                 added == SubSeq(al'.aligned, Len(al.aligned) + 1,
                                 Len(al'.aligned))
             IN /\ \A k \in 1..Len(added) :
                      /\ \E a \in 1..Len(turns) :
                            /\ added[k].speaker = turns[a].speaker
                            /\ added[k].start = Max(seg.start, turns[a].start)
                            /\ added[k].end = Min(seg.end, turns[a].end)
                      /\ seg.start <= added[k].start
                      /\ added[k].start < added[k].end
                      /\ added[k].end <= seg.end
                /\ \A k \in 1..(Len(added) - 1) :
                      added[k].start <= added[k + 1].start]_vars
    /\ []((/\ al.pc = "returned"
           /\ al.transcription_segments = ExampleCall.transcription_segments
           /\ al.diarization = ExampleCall.diarization)
          => /\ Len(al.aligned) = 2
             /\ al.aligned[1].start = 6 /\ al.aligned[1].end = 10
             /\ al.aligned[1].speaker = "SPEAKER_00"
             /\ al.aligned[2].start = 10 /\ al.aligned[2].end = 14
             /\ al.aligned[2].speaker = "SPEAKER_01")

\* The example, returned: [3, 5] "Hello world" of SPEAKER_00, then [5, 7]
\* "how are you" of SPEAKER_01 (times in half seconds).
C36_Witness ==
    /\ al.pc = "returned"
    /\ al.transcription_segments = ExampleCall.transcription_segments
    /\ al.diarization = ExampleCall.diarization
    /\ al.branches = <<"split">>
    /\ al.aligned =
         <<[start |-> 6, end |-> 10, speaker |-> "SPEAKER_00",
            text |-> <<"Hello", " ", "world">>],
           [start |-> 10, end |-> 14, speaker |-> "SPEAKER_01",
            text |-> <<"how", " ", "are", " ", "you">>]>>

====
